---- MODULE Spec2Model ----
(***************************************************************************)
(* A model of mac-report: the plain edition (src/unnamed/part_000) and the *)
(* themed edition (src/machine_report.cpp).                                *)
(*                                                                         *)
(* Text is a TLA+ string, read character by character with SubSeq, so     *)
(* that the parsing and formatting code can be followed as written.        *)
(* Positions are 1-based; 0 stands for std::string::npos.                  *)
(* Byte strings (getDisplayWidth) are sequences of numbers 0..255.         *)
(***************************************************************************)
EXTENDS Integers, Sequences, FiniteSets, TLC

VARIABLES
  edition,     \* "plain" (part_000) or "themed" (machine_report.cpp)
  barIn,       \* drawBarGraph: the arguments of the call
  barOut,      \* drawBarGraph: the returned glyph sequence
  barPc,       \* drawBarGraph: "call" before, "done" after
  loginIn,     \* getLastLogin: what getenv and the two commands yield
  loginRet,    \* getLastLogin: the returned LoginInfo
  loginPc,     \* getLastLogin: "call", "done", or "crashed"
  wItems,      \* getDisplayWidth: the pieces the argument was made of
  wStr,        \* getDisplayWidth: the argument, a byte string
  wI,          \* getDisplayWidth: the loop index i (0-based, as in the code)
  wWidth,      \* getDisplayWidth: the local width
  wPc,         \* getDisplayWidth: "loop" while scanning, "done" once returned
  cached_total_mem,  \* getMemInfo's static (plain edition)
  memIn,       \* getMemInfo: what the system answered in the last call
  memRet,      \* getMemInfo: the MemInfo last returned
  diskIn,      \* getDiskInfo: what statfs answered in the last call
  diskRet,     \* getDiskInfo: the DiskInfo last returned
  nCalls,      \* collector calls made so far
  env,         \* a run: the environment variables and the queries' answers
  pcMain,      \* a run: the statement main is at
  task,        \* a run: the state of each std::async task
  fut,         \* a run: the shared state of each future
  loc,         \* a run: the locals of main
  current_len, \* a run: main's working column width (0 until computed)
  out,         \* a run: the lines written to standard output
  exitCode,    \* a run: "running", "0", or the signal that ended the process
  accesses,    \* a run: the reads and writes of shared locations so far
  statics,     \* the function-local statics of the identity collectors
  lastCall,    \* the latest collector call: its answers and what it returned
  history      \* per collector: calls made, cache writes, first return value

barVars == <<barIn, barOut, barPc>>
loginVars == <<loginIn, loginRet, loginPc>>
widthVars == <<wItems, wStr, wI, wWidth, wPc>>
colVars == <<cached_total_mem, memIn, memRet, diskIn, diskRet, nCalls>>
runVars ==
  <<env, pcMain, task, fut, loc, current_len, out, exitCode, accesses>>

cacheVars == <<statics, lastCall, history>>

vars == <<edition, barVars, loginVars, widthVars, colVars, runVars, cacheVars>>

Editions == {"plain", "themed"}

(***************************************************************************)
(* Program constants.                                                      *)
(***************************************************************************)
MIN_NAME_LEN == 5
MAX_NAME_LEN == 13
MIN_DATA_LEN == 20
MAX_DATA_LEN == 32
BORDERS_AND_PADDING == 7

(***************************************************************************)
(* Bounds of the model.                                                    *)
(***************************************************************************)
\* drawBarGraph is applied to widths 0..MaxWidth
MaxWidth == 8
\* ... and to percents 0, 1/PercentDen, 2/PercentDen, ..., MaxPercent
MaxPercent == 150
PercentDen == 2
\* getDisplayWidth is applied to strings of 0..MaxItems pieces
MaxItems == 4
\* and to strings of 0..MaxChars characters outside ASCII
MaxChars == 3
\* the collectors are called up to MaxCalls times in one process
MaxCalls == 3
\* page counts 0..MaxPages, block counts 0..MaxBlocks
MaxPages == 2
MaxBlocks == 3
\* bytes in a page, bytes in a block, bytes of memory installed
PageSize == 4
BlockSize == 2
MemSize == 16

(***************************************************************************)
(* Numbers.  A double that the program computes by one division is kept as *)
(* the exact fraction num/den (den > 0), or as "inf"/"nan" when the        *)
(* division was by zero.                                                   *)
(***************************************************************************)
Fin(n, d) == [k |-> "fin", num |-> n, den |-> d]
Inf == [k |-> "inf", num |-> 0, den |-> 1]
NaN == [k |-> "nan", num |-> 0, den |-> 1]

\* a / b as the double division does it, for a, b >= 0
Div(a, b) == IF b # 0 THEN Fin(a, b) ELSE IF a = 0 THEN NaN ELSE Inf

\* fraction x = integer n
RatEq(x, n, d) == x.k = "fin" /\ x.num * d = n * x.den

\* fraction x < integer n
RatLess(x, n) == x.k = "fin" /\ x.num < n * x.den

(***************************************************************************)
(* drawBarGraph                                                            *)
(***************************************************************************)
\* the glyphs and escape sequences a bar is made of
FilledGlyph(ed) == IF ed = "plain" THEN "full_block" ELSE "filled_bar"
EmptyGlyph(ed) == IF ed = "plain" THEN "light_shade" ELSE "empty_bar"

\* a mutant of NumBlocks: rounds to nearest instead of truncating
NumBlocksRounded(percent, width) ==
  (2 * percent.num * width + 100 * percent.den) \div (2 * 100 * percent.den)

\* static_cast<int>((percent / 100.0) * width), percent finite and >= 0
NumBlocks(percent, width) ==
  (percent.num * width) \div (100 * percent.den)

\* for (int i = from; i < to; ++i) graph += glyph;
\* (the body runs to - i times when i < to, and not at all otherwise)
AppendLoop(graph, glyph, i, to) ==
  graph \o [q \in 1..(IF i < to THEN to - i ELSE 0) |-> glyph]

BarColor(percent) ==
  IF RatLess(percent, 50) THEN "GREEN"
  ELSE IF RatLess(percent, 75) THEN "YELLOW" ELSE "PINK"

drawBarGraph(ed, percent, width) ==
  LET num_blocks == NumBlocks(percent, width) IN
  IF ed = "plain"
  THEN AppendLoop(AppendLoop(<<>>, "full_block", 0, num_blocks),
                  "light_shade", num_blocks, width)
  ELSE LET g1 == <<BarColor(percent)>>
           g2 == AppendLoop(g1, "filled_bar", 0, num_blocks)
           g3 == g2 \o <<"RESET", "DIM">>
           g4 == AppendLoop(g3, "empty_bar", num_blocks, width)
       IN  g4 \o <<"RESET">>

BarInit ==
  /\ barIn \in [percent : {Fin(n, PercentDen) : n \in 0..(MaxPercent * PercentDen)},
                width : 0..MaxWidth]
  /\ barOut = <<>>
  /\ barPc = "call"

BarIdle ==
  /\ barIn = [percent |-> Fin(0, 1), width |-> 0]
  /\ barOut = <<>>
  /\ barPc = "idle"

CallDrawBarGraph ==
  /\ barPc = "call"
  /\ barOut' = drawBarGraph(edition, barIn.percent, barIn.width)
  /\ barPc' = "done"
  /\ UNCHANGED <<edition, barIn>>

(***************************************************************************)
(* std::string operations                                                  *)
(***************************************************************************)
\* getenv: NULL for a variable that is not set, else its value
NULL == [set |-> FALSE, val |-> ""]
Value(v) == [set |-> TRUE, val |-> v]

Min(a, b) == IF a < b THEN a ELSE b
Max(a, b) == IF a > b THEN a ELSE b

\* s[pos], pos 1-based
At(s, pos) == SubSeq(s, pos, pos)

\* s.find(pat, from): the first position >= from where pat starts, 0 if none
Find(s, pat, from) ==
  LET hits == {q \in from..(Len(s) - Len(pat) + 1) :
                 SubSeq(s, q, q + Len(pat) - 1) = pat}
  IN  IF hits = {} THEN 0 ELSE CHOOSE q \in hits : \A r \in hits : q <= r

\* the last position where pat starts, 0 if none
FindLast(s, pat) ==
  LET hits == {q \in 1..(Len(s) - Len(pat) + 1) :
                 SubSeq(s, q, q + Len(pat) - 1) = pat}
  IN  IF hits = {} THEN 0 ELSE CHOOSE q \in hits : \A r \in hits : q >= r

\* s.substr(pos) and s.substr(pos, n)
SubstrFrom(s, pos) == SubSeq(s, pos, Len(s))
Substr(s, pos, n) == SubSeq(s, pos, Min(pos + n - 1, Len(s)))

\* s.erase(0, s.find_first_not_of(" ")): all of s goes when it is only spaces
RECURSIVE EraseLeadingSpaces(_)
EraseLeadingSpaces(s) ==
  IF s # "" /\ Head(s) = " " THEN EraseLeadingSpaces(Tail(s)) ELSE s

\* s.erase(std::remove(s.begin(), s.end(), ' '), s.end())
RECURSIVE RemoveSpaces(_)
RemoveSpaces(s) ==
  IF s = "" THEN ""
  ELSE IF Head(s) = " " THEN RemoveSpaces(Tail(s))
       ELSE At(s, 1) \o RemoveSpaces(Tail(s))

\* while ((p = s.find(pat)) != npos) s.replace(p, pat.length(), by);
RECURSIVE ReplaceAll(_, _, _)
ReplaceAll(s, pat, by) ==
  LET q == Find(s, pat, 1) IN
  IF q = 0 THEN s
  ELSE ReplaceAll(SubSeq(s, 1, q - 1) \o by \o SubstrFrom(s, q + Len(pat)),
                  pat, by)

IsSpace(c) == c \in {" ", "\t", "\n"}
IsDigit(c) == c \in {"0", "1", "2", "3", "4", "5", "6", "7", "8", "9"}

\* while (ss >> segment) parts.push_back(segment);
RECURSIVE Tokens(_, _, _)
Tokens(s, cur, parts) ==
  IF s = "" THEN (IF cur = "" THEN parts ELSE Append(parts, cur))
  ELSE IF IsSpace(Head(s))
       THEN Tokens(Tail(s), "", IF cur = "" THEN parts ELSE Append(parts, cur))
       ELSE Tokens(Tail(s), cur \o At(s, 1), parts)

\* only blanks, or nothing at all
IsBlank(s) == \A q \in 1..Len(s) : IsSpace(At(s, q))

(***************************************************************************)
(* getLastLogin                                                            *)
(***************************************************************************)
LoginInfo(time, ip, ip_present, uptime) ==
  [time |-> time, ip |-> ip, ip_present |-> ip_present, uptime |-> uptime]

\* plain edition, the login record
LastLoginPlain(last_login) ==
  IF last_login = "" \/ Find(last_login, "never logged in", 1) # 0
  THEN [time |-> "Never logged in", ip |-> "", ip_present |-> FALSE]
  ELSE LET parts == Tokens(last_login, "", <<>>)
           \* parts[2] of the code is parts[3] here
           has_ip == /\ Len(parts) > 2
                     /\ IsDigit(At(parts[3], 1))
                     /\ Find(parts[3], ".", 1) # 0
           date_start_idx == IF has_ip THEN 3 ELSE 2
           d == date_start_idx + 1
       IN  [time |-> IF Len(parts) >= date_start_idx + 4
                     THEN parts[d] \o " " \o parts[d + 1] \o " " \o
                          parts[d + 2] \o " " \o parts[d + 3]
                     ELSE last_login,
            ip |-> IF has_ip THEN parts[3] ELSE "",
            ip_present |-> has_ip]

\* plain edition, the uptime text
UptimePlain(uptime_raw) ==
  LET up_pos == Find(uptime_raw, "up ", 1) IN
  IF up_pos = 0 THEN ""
  ELSE
    LET sub == SubstrFrom(uptime_raw, up_pos + 3)
        comma_pos == Find(sub, ",", 1)
    IN
    IF comma_pos = 0 THEN ""
    ELSE
      LET part1 == SubSeq(sub, 1, comma_pos - 1) IN
      IF Find(part1, "day", 1) # 0
      THEN
        LET comma2_pos == Find(sub, ",", comma_pos + 1)
            time_part0 == IF comma2_pos # 0
                          THEN SubSeq(sub, comma_pos + 1, comma2_pos - 1)
                          ELSE ""
            days == RemoveSpaces(ReplaceAll(ReplaceAll(part1, " days", "d"),
                                            " day", "d"))
            time_part == EraseLeadingSpaces(time_part0)
            colon == Find(time_part, ":", 1)
        IN  IF colon # 0
            THEN days \o " " \o SubSeq(time_part, 1, colon - 1) \o "h " \o
                 SubstrFrom(time_part, colon + 1) \o "m"
            ELSE days
      ELSE
        LET trimmed == EraseLeadingSpaces(part1)
            colon == Find(trimmed, ":", 1)
        IN  IF colon # 0
            THEN SubSeq(trimmed, 1, colon - 1) \o "h " \o
                 SubstrFrom(trimmed, colon + 1) \o "m"
            ELSE trimmed

\* themed edition, the login record
LastLoginThemed(last_cmd) ==
  LET tokens == Tokens(last_cmd, "", <<>>) IN
  IF last_cmd # "" /\ Len(tokens) >= 6
  THEN tokens[3] \o " " \o tokens[4] \o " " \o tokens[5] \o " " \o tokens[6]
  ELSE IF last_cmd # "" /\ Len(tokens) >= 4
  THEN tokens[3] \o " " \o tokens[4] \o
       (IF Len(tokens) >= 5 THEN " " \o tokens[5] ELSE "")
  ELSE "N/A"

\* themed edition: what  sed 's/.*up \([^,]*\).*/\1/'  makes of the line that
\* uptime prints: the text after the last "up " as far as the next comma, or
\* the line as it is when it holds no "up "
RECURSIVE UpToComma(_)
UpToComma(s) ==
  IF s = "" \/ Head(s) = "," THEN "" ELSE At(s, 1) \o UpToComma(Tail(s))

SedUp(line) ==
  LET q == FindLast(line, "up ") IN
  IF q = 0 THEN line ELSE UpToComma(SubstrFrom(line, q + 3))

UptimeThemed(uptime_raw) ==
  LET uptime_cmd == SedUp(uptime_raw) IN
  IF uptime_cmd # "" THEN uptime_cmd ELSE "N/A"

\* the value getLastLogin returns; user is not NULL in the plain edition
getLastLogin(ed, last_out, uptime_raw) ==
  IF ed = "plain"
  THEN LET l == LastLoginPlain(last_out)
       IN  LoginInfo(l.time, l.ip, l.ip_present, UptimePlain(uptime_raw))
  ELSE LoginInfo(LastLoginThemed(last_out), "", FALSE,
                 UptimeThemed(uptime_raw))

\* what the uptime command may print
UptimeTexts ==
  { "up 3 days, 4:15", "up 4:15",
    "9:01  up 3 days,  4:15, 2 users", "9:01  up 1 day, 23:05, 1 user",
    "9:01  up  4:15, 2 users", "9:01  up 5 mins, 2 users",
    "9:01  up 2 days, 5 mins, 2 users", "n/a", "" }

\* what the login-history command may print
LastTexts ==
  { "al console Mon Jan 1 10:00", "al ttys000 1.2.3.4 Mon Jan 1 10:00",
    "al ttys000 1.2.3.4 Mon Jan", "al console Mon Jan 1",
    "al never logged in", "wtmp begins", "" }

LoginInit ==
  /\ loginIn \in [user : {NULL, Value("al")}, last : LastTexts, uptime : UptimeTexts]
  /\ loginRet = LoginInfo("", "", FALSE, "")
  /\ loginPc = "call"

LoginIdle ==
  /\ loginIn = [user |-> NULL, last |-> "", uptime |-> ""]
  /\ loginRet = LoginInfo("", "", FALSE, "")
  /\ loginPc = "idle"

\* The plain edition appends getenv("USER") to the command line without
\* testing it: with USER unset that is std::string::operator+=(nullptr),
\* undefined behaviour, which either ends the process or goes on with some
\* command line.
LoginUserUndefined(ed, user) == ed = "plain" /\ user = NULL

CallGetLastLogin ==
  /\ loginPc = "call"
  /\ \/ /\ LoginUserUndefined(edition, loginIn.user)
        /\ loginPc' = "crashed"
        /\ UNCHANGED loginRet
     \/ /\ loginRet' = getLastLogin(edition, loginIn.last, loginIn.uptime)
        /\ loginPc' = "done"
  /\ UNCHANGED <<edition, loginIn>>

(***************************************************************************)
(* getDisplayWidth (themed edition)                                        *)
(***************************************************************************)
ESC == 27
LBRACKET == 91

\* the inner while loop over the bytes after ESC '[': where it stops (j), and
\* whether it stopped on a final byte 0x40..0x7E
RECURSIVE ScanEscape(_, _)
ScanEscape(str, j) ==
  IF j >= Len(str) THEN [j |-> j, final |-> FALSE]
  ELSE LET ch == str[j + 1] IN
       IF ch >= 64 /\ ch <= 126 THEN [j |-> j, final |-> TRUE]
       ELSE IF ch < 32 \/ ch > 63 THEN [j |-> j, final |-> FALSE]
       ELSE ScanEscape(str, j + 1)

\* a mutant of AfterEscape: the final byte is left to be read as text
AfterEscapeKeepsFinal(str, i) ==
  LET r == ScanEscape(str, i + 2) IN
  IF r.j >= Len(str) THEN Len(str) ELSE IF r.final THEN r.j ELSE i

\* the value of i after the branch  c == 0x1B, str[i + 1] == '['
AfterEscape(str, i) ==
  LET r == ScanEscape(str, i + 2) IN
  IF r.j >= Len(str) THEN Len(str) ELSE IF r.final THEN r.j + 1 ELSE i

\* a mutant of WidthIter: a 3-byte sequence takes 2 columns
WidthIterWideThree(str, i, width) ==
  LET c == str[i + 1] IN
  IF c = ESC
  THEN IF i + 1 < Len(str) /\ str[i + 2] = LBRACKET
       THEN [i |-> AfterEscape(str, i), width |-> width]
       ELSE [i |-> i + 1, width |-> width + 1]
  ELSE IF c < 128
  THEN [i |-> i + 1, width |-> width + 1]
  ELSE IF c >= 192 /\ c <= 223
  THEN [i |-> i + 2,
        width |-> IF i + 1 < Len(str)
                  THEN LET c1 == str[i + 2] IN
                       IF \/ (c = 194 /\ c1 >= 161 /\ c1 <= 175)
                          \/ (c = 195 /\ c1 >= 128 /\ c1 <= 191)
                       THEN width + 1 ELSE width + 2
                  ELSE width + 2]
  ELSE IF c >= 224 /\ c <= 239
  THEN [i |-> i + 3, width |-> width + 2]
  ELSE IF c >= 240 /\ c <= 247
  THEN [i |-> i + 4, width |-> width + 2]
  ELSE [i |-> i + 1, width |-> width + 1]

\* one iteration of the for loop, from index i < str.length()
WidthIter(str, i, width) ==
  LET c == str[i + 1] IN
  IF c = ESC
  THEN IF i + 1 < Len(str) /\ str[i + 2] = LBRACKET
       THEN [i |-> AfterEscape(str, i), width |-> width]
       ELSE [i |-> i + 1, width |-> width + 1]
  ELSE IF c < 128
  THEN [i |-> i + 1, width |-> width + 1]
  ELSE IF c >= 192 /\ c <= 223
  THEN [i |-> i + 2,
        width |-> IF i + 1 < Len(str)
                  THEN LET c1 == str[i + 2] IN
                       IF \/ (c = 194 /\ c1 >= 161 /\ c1 <= 175)
                          \/ (c = 195 /\ c1 >= 128 /\ c1 <= 191)
                       THEN width + 1 ELSE width + 2
                  ELSE width + 2]
  ELSE IF c >= 224 /\ c <= 239
  THEN [i |-> i + 3, width |-> width + 1]
  ELSE IF c >= 240 /\ c <= 247
  THEN [i |-> i + 4, width |-> width + 2]
  ELSE [i |-> i + 1, width |-> width + 1]

\* The pieces a string is made of: ASCII characters, SGR sequences, and
\* characters outside ASCII.
AsciiItems == {"a", "1", "[", "tab"}
SgrItems == {"sgr_m", "sgr_0m", "sgr_1_31m"}
OtherItems == {"e_acute"}
Items == AsciiItems \cup SgrItems \cup OtherItems
\* 2-byte sequences at the edges of the two narrow ranges and outside them, a
\* 3-byte and a 4-byte sequence
NarrowTwo == {"c2a1", "c2af", "c380", "c3bf", "e_acute"}
WideTwo == {"c2a0", "c2b0", "d090"}
ThreeBytes == {"e29688"}
FourBytes == {"f09f9880"}
\* sequences cut off after the lead byte or inside the continuation bytes
CutItems == {"cut2", "cut3", "cut4"}
\* ESC '[' with nothing after it: what follows in the string is read as the
\* parameter and final bytes of the sequence
CsiItems == {"csi"}
CharItems ==
  {"a", "1", "tab"} \cup NarrowTwo \cup WideTwo \cup ThreeBytes \cup FourBytes
    \cup CutItems \cup CsiItems

ItemBytes(it) ==
  CASE it = "a" -> <<97>>
    [] it = "1" -> <<49>>
    [] it = "[" -> <<91>>
    [] it = "tab" -> <<9>>
    [] it = "sgr_m" -> <<27, 91, 109>>
    [] it = "sgr_0m" -> <<27, 91, 48, 109>>
    [] it = "sgr_1_31m" -> <<27, 91, 49, 59, 51, 49, 109>>
    [] it = "e_acute" -> <<195, 169>>
    [] it = "c2a1" -> <<194, 161>>
    [] it = "c2af" -> <<194, 175>>
    [] it = "c380" -> <<195, 128>>
    [] it = "c3bf" -> <<195, 191>>
    [] it = "c2a0" -> <<194, 160>>
    [] it = "c2b0" -> <<194, 176>>
    [] it = "d090" -> <<208, 144>>
    [] it = "e29688" -> <<226, 150, 136>>
    [] it = "f09f9880" -> <<240, 159, 152, 128>>
    [] it = "cut2" -> <<208>>
    [] it = "cut3" -> <<226, 150>>
    [] it = "cut4" -> <<240, 159>>
    [] it = "csi" -> <<27, 91>>

RECURSIVE Concat(_)
Concat(items) ==
  IF items = <<>> THEN <<>> ELSE ItemBytes(Head(items)) \o Concat(Tail(items))

ItemSeqs ==
  UNION {[1..n -> Items] : n \in 0..MaxItems}
    \cup UNION {[1..n -> CharItems] : n \in 0..MaxChars}

WidthInit ==
  /\ wItems \in ItemSeqs
  /\ wStr = Concat(wItems)
  /\ wI = 0
  /\ wWidth = 0
  /\ wPc = "loop"

WidthIdle ==
  /\ wItems = <<>>
  /\ wStr = <<>>
  /\ wI = 0
  /\ wWidth = 0
  /\ wPc = "idle"

\* one pass through the body of the for loop
WidthStep ==
  /\ wPc = "loop"
  /\ wI < Len(wStr)
  /\ LET r == WidthIter(wStr, wI, wWidth) IN wI' = r.i /\ wWidth' = r.width
  /\ UNCHANGED <<edition, wItems, wStr, wPc>>

\* the loop condition fails: return width
WidthReturn ==
  /\ wPc = "loop"
  /\ wI >= Len(wStr)
  /\ wPc' = "done"
  /\ UNCHANGED <<edition, wItems, wStr, wI, wWidth>>

(***************************************************************************)
(* getMemInfo                                                              *)
(***************************************************************************)
MemInfo(total, used, percent) ==
  [total |-> total, used |-> used, percent |-> percent]

\* (static_cast<double>(used) / total) * 100.0
PercentOf(used, total) == Div(used * 100, total)

\* what sysctl hw.memsize and host_statistics answer: ok says whether the
\* call succeeded
MemQueries ==
  [memsize : [ok : {TRUE}, val : {0, MemSize}] \cup {[ok |-> FALSE, val |-> 0]},
   vm : [ok : {TRUE}, active : 0..MaxPages, wired : 0..MaxPages]
          \cup {[ok |-> FALSE, active |-> 0, wired |-> 0]}]

\* what a variable that was never written may hold
Garbage == {0, 7}

\* plain edition: the value of the static after the call
CachedTotalAfter(cached, q) ==
  IF cached = 0 /\ q.memsize.ok THEN q.memsize.val ELSE cached

getMemInfoPlain(cached, q) ==
  LET total == CachedTotalAfter(cached, q)
      used == IF q.vm.ok THEN q.vm.active * PageSize + q.vm.wired * PageSize
              ELSE 0
  IN  MemInfo(total, used, IF total > 0 THEN PercentOf(used, total) ELSE Fin(0, 1))

\* themed edition: total_mem is written by sysctl only when it succeeds;
\* unset is what it holds otherwise
getMemInfoThemed(q, unset) ==
  IF q.vm.ok
  THEN LET total_mem == IF q.memsize.ok THEN q.memsize.val ELSE unset
           used_mem == (q.vm.active + q.vm.wired) * PageSize
       IN  MemInfo(total_mem, used_mem, PercentOf(used_mem, total_mem))
  ELSE MemInfo(0, 0, Fin(0, 1))

CallGetMemInfo ==
  /\ nCalls < MaxCalls
  /\ \E q \in MemQueries :
       /\ memIn' = q
       /\ IF edition = "plain"
          THEN /\ memRet' = getMemInfoPlain(cached_total_mem, q)
               /\ cached_total_mem' = CachedTotalAfter(cached_total_mem, q)
          ELSE /\ \E unset \in Garbage : memRet' = getMemInfoThemed(q, unset)
               /\ UNCHANGED cached_total_mem
  /\ nCalls' = nCalls + 1
  /\ UNCHANGED <<edition, diskIn, diskRet>>

(***************************************************************************)
(* getDiskInfo                                                             *)
(***************************************************************************)
DiskInfo(total, used, percent) ==
  [total |-> total, used |-> used, percent |-> percent]

\* what statfs("/") answers: f_bavail <= f_bfree <= f_blocks
StatfsAnswers ==
  {s \in [ok : {TRUE}, f_blocks : 0..MaxBlocks, f_bfree : 0..MaxBlocks,
          f_bavail : 0..MaxBlocks, f_bsize : {BlockSize}] :
     s.f_bavail <= s.f_bfree /\ s.f_bfree <= s.f_blocks}
  \cup {[ok |-> FALSE, f_blocks |-> 0, f_bfree |-> 0, f_bavail |-> 0,
         f_bsize |-> 0]}

getDiskInfoPlain(s) ==
  IF s.ok
  THEN LET total == s.f_blocks * s.f_bsize
           free == s.f_bfree * s.f_bsize
           used == total - free
       IN  DiskInfo(total, used,
                    IF total > 0 THEN PercentOf(used, total) ELSE Fin(0, 1))
  ELSE DiskInfo(0, 0, Fin(0, 1))

getDiskInfoThemed(s) ==
  IF s.ok
  THEN LET total_bytes == s.f_blocks * s.f_bsize
           free_bytes == s.f_bavail * s.f_bsize
           used_bytes == total_bytes - free_bytes
       IN  DiskInfo(total_bytes, used_bytes, PercentOf(used_bytes, total_bytes))
  ELSE DiskInfo(0, 0, Fin(0, 1))

getDiskInfo(ed, s) ==
  IF ed = "plain" THEN getDiskInfoPlain(s) ELSE getDiskInfoThemed(s)

CallGetDiskInfo ==
  /\ nCalls < MaxCalls
  /\ \E s \in StatfsAnswers :
       /\ diskIn' = s
       /\ diskRet' = getDiskInfo(edition, s)
  /\ nCalls' = nCalls + 1
  /\ UNCHANGED <<edition, cached_total_mem, memIn, memRet>>

\* the state of a process that has called no collector yet
ColInit ==
  /\ cached_total_mem = 0
  /\ memIn = [memsize |-> [ok |-> FALSE, val |-> 0],
              vm |-> [ok |-> FALSE, active |-> 0, wired |-> 0]]
  /\ memRet = MemInfo(0, 0, Fin(0, 1))
  /\ diskIn = [ok |-> FALSE, f_blocks |-> 0, f_bfree |-> 0, f_bavail |-> 0,
               f_bsize |-> 0]
  /\ diskRet = DiskInfo(0, 0, Fin(0, 1))
  /\ nCalls = 0

(***************************************************************************)
(* Number formatting                                                       *)
(***************************************************************************)
Digit(d) == SubSeq("0123456789", d + 1, d + 1)

\* std::to_string of an int
RECURSIVE to_string(_)
to_string(n) ==
  IF n < 0 THEN "-" \o to_string(0 - n)
  ELSE IF n < 10 THEN Digit(n)
  ELSE to_string(n \div 10) \o Digit(n % 10)

\* ss << std::fixed << std::setprecision(2) << x, for x >= 0
Fixed2(x) ==
  IF x.k = "inf" THEN "inf"
  ELSE IF x.k = "nan" THEN "nan"
  ELSE LET hundredths == (2 * 100 * x.num + x.den) \div (2 * x.den)
       IN  to_string(hundredths \div 100) \o "." \o
           Digit((hundredths % 100) \div 10) \o Digit(hundredths % 10)

\* x / n and x * 100.0 on doubles
RatDivInt(x, n) ==
  IF x.k # "fin" THEN x
  ELSE IF n = 0 THEN (IF x.num = 0 THEN NaN ELSE Inf)
  ELSE Fin(x.num, x.den * n)
RatTimes100(x) == IF x.k # "fin" THEN x ELSE Fin(x.num * 100, x.den)

\* formatBytes and formatGiB: bytes / (1024 * 1024 * 1024) with two decimals.
\* The model counts bytes in units of 128 MiB, 8 to the GiB, to stay within
\* the 32-bit integers of TLC.
GiB == 8
formatBytes(bytes) == Fixed2(Fin(bytes, GiB))
formatGiB(bytes) == Fixed2(Fin(bytes, GiB))

(***************************************************************************)
(* The environment of a run: what the environment variables hold and what  *)
(* each command and system call answers.                                   *)
(*   ident = "ok":    every identity query answers                         *)
(*   ident = "nocmd": the spawned commands print nothing, the calls answer *)
(*   ident = "fail":  the commands print nothing and the calls fail        *)
(***************************************************************************)
Environments ==
  [user : {NULL, Value(""), Value("al")},
   ssh_client : {NULL, Value(""), Value("1.2.3.4 5 22")},
   who : {"", "al console Jan 1 10:00", "al ttys000 Jan 1 10:00 (1.2.3.4)"},
   last : {"", "al console Mon Jan 1 10:00",
           "al ttys000 1.2.3.4 Mon Jan 1 10:00"},
   uptime : {"", "n/a", "9:01  up 3 days,  4:15, 2 users"},
   dns : {"", "nameserver[0] : 8.8.8.8\nnameserver[0] : 1.1.1.1"},
   ident : {"ok", "nocmd", "fail"},
   load_1 : {200, 1200},
   physicalcpu : {4},
   ncpu : {8}]

\* execCommand("sw_vers -productName"), execCommand("sw_vers -productVersion")
SwVersName(e) == IF e.ident = "ok" THEN "macOS" ELSE ""
SwVersVersion(e) == IF e.ident = "ok" THEN "15.6" ELSE ""
\* sysctlbyname, gethostname, getifaddrs, getpwuid: ok and the value
Sysctl(e, name) ==
  IF e.ident = "fail" THEN [ok |-> FALSE, val |-> ""]
  ELSE [ok |-> TRUE,
        val |-> CASE name = "kern.osrelease" -> "24.6.0"
                  [] name = "kern.ostype" -> "Darwin"
                  [] name = "kern.version" -> "Darwin Kernel Version 24.6.0"
                  [] name = "machdep.cpu.brand_string" -> "Apple M1"
                  [] name = "hostname" -> "mac"
                  [] name = "ifaddr" -> "10.0.0.5"
                  [] name = "pw_name" -> "al"]

(***************************************************************************)
(* The synchronous collectors of main                                      *)
(***************************************************************************)
getOSName(ed, e) ==
  LET name == SwVersName(e)
      version == SwVersVersion(e)
  IN  IF ed = "plain" THEN name \o " " \o version
      ELSE IF name # "" /\ version # "" THEN name \o " " \o version
      ELSE LET os_type == IF Sysctl(e, "kern.ostype").ok
                          THEN Sysctl(e, "kern.ostype").val ELSE "macOS"
               os_release == IF Sysctl(e, "kern.osrelease").ok
                             THEN Sysctl(e, "kern.osrelease").val ELSE ""
           IN  os_type \o " " \o os_release

getKernelVersion(ed, e) ==
  IF ed = "plain"
  THEN "Darwin" \o (IF Sysctl(e, "kern.osrelease").ok
                    THEN " " \o Sysctl(e, "kern.osrelease").val ELSE "")
  ELSE IF Sysctl(e, "kern.version").ok
       THEN Sysctl(e, "kern.version").val ELSE "unknown"

getHostname(ed, e) ==
  IF Sysctl(e, "hostname").ok THEN Sysctl(e, "hostname").val
  ELSE IF ed = "plain" THEN "Not Defined" ELSE "unknown"

getMachineIP(ed, e) ==
  IF Sysctl(e, "ifaddr").ok THEN Sysctl(e, "ifaddr").val
  ELSE IF ed = "plain" THEN "No IP found" ELSE "unknown"

getCurrentUser(ed, e) ==
  IF ed = "plain" THEN (IF e.user.set THEN e.user.val ELSE "")
  ELSE IF Sysctl(e, "pw_name").ok THEN Sysctl(e, "pw_name").val ELSE "unknown"

\* the model string of getCPUStaticInfo / getCPUInfo
CPUModel(ed, e) ==
  IF Sysctl(e, "machdep.cpu.brand_string").ok
  THEN Sysctl(e, "machdep.cpu.brand_string").val
  ELSE IF ed = "plain" THEN "" ELSE "Unknown CPU"

\* what the uninitialized ints of the themed CPUInfo may hold
NoUnset == [physical |-> 0, logical |-> 0, sockets |-> 0]
UnsetCores == [physical : Garbage, logical : Garbage, sockets : Garbage]

\* The core counts and load averages (loads in hundredths). When sysctlbyname
\* fails, the plain edition keeps the zeros of the value-initialized static
\* and still asks getloadavg; the themed edition leaves the three ints of its
\* CPUInfo as they were, uninitialized (unset), and sets the loads to 0.0.
getCPUInfo(ed, e, unset) ==
  LET ok == e.ident # "fail" IN
  [model |-> CPUModel(ed, e),
   cores_physical |-> IF ok THEN e.physicalcpu
                      ELSE IF ed = "plain" THEN 0 ELSE unset.physical,
   cores_logical |-> IF ok THEN e.ncpu
                     ELSE IF ed = "plain" THEN 0 ELSE unset.logical,
   sockets |-> IF ok THEN 1 ELSE IF ed = "plain" THEN 0 ELSE unset.sockets,
   load_1 |-> IF ok \/ ed = "plain" THEN Fin(e.load_1, 100) ELSE Fin(0, 1),
   load_5 |-> IF ok \/ ed = "plain" THEN Fin(100, 100) ELSE Fin(0, 1),
   load_15 |-> IF ok \/ ed = "plain" THEN Fin(50, 100) ELSE Fin(0, 1)]

\* the memory and filesystem answers of a run
RunMemQuery ==
  [memsize |-> [ok |-> TRUE, val |-> MemSize],
   vm |-> [ok |-> TRUE, active |-> 1, wired |-> 1]]
RunStatfs ==
  [ok |-> TRUE, f_blocks |-> 3, f_bfree |-> 2, f_bavail |-> 1,
   f_bsize |-> BlockSize]

(***************************************************************************)
(* The asynchronous collectors                                             *)
(***************************************************************************)
\* the first whitespace-delimited field: ss >> ip
FirstToken(s) ==
  LET t == Tokens(s, "", <<>>) IN IF t = <<>> THEN "" ELSE t[1]

getClientIP(ed, e) ==
  IF e.ssh_client.set
  THEN IF ed = "plain" THEN FirstToken(e.ssh_client.val)
       ELSE LET space == Find(e.ssh_client.val, " ", 1) IN
            IF space # 0 THEN SubSeq(e.ssh_client.val, 1, space - 1)
            ELSE e.ssh_client.val
  ELSE IF ed = "themed" THEN "N/A"
  ELSE IF e.who = "" THEN "Not connected"
  ELSE LET start == Find(e.who, "(", 1)
           end == Find(e.who, ")", 1)
       IN  IF start # 0 /\ end # 0 /\ end > start
           THEN SubSeq(e.who, start + 1, end - 1)
           ELSE "Local Session"

\* std::getline over the text from position from on: its lines, without the
\* newlines
RECURSIVE LinesFrom(_, _)
LinesFrom(s, from) ==
  IF from > Len(s) THEN <<>>
  ELSE LET nl == Find(s, "\n", from) IN
       IF nl = 0 THEN <<SubSeq(s, from, Len(s))>>
       ELSE <<SubSeq(s, from, nl - 1)>> \o LinesFrom(s, nl + 1)
Lines(s) == LinesFrom(s, 1)

\* the longest prefix of s made of digits and dots: \([0-9.]*\)
RECURSIVE DigitsAndDots(_)
DigitsAndDots(s) ==
  IF s # "" /\ (IsDigit(Head(s)) \/ Head(s) = ".")
  THEN At(s, 1) \o DigitsAndDots(Tail(s)) ELSE ""

\* plain edition: sed 's/.*nameserver\[0\] : \([0-9.]*\).*/\1/' on one line
SedNameserver(line) ==
  LET q == FindLast(line, "nameserver[0] : ") IN
  IF q = 0 THEN line ELSE DigitsAndDots(SubstrFrom(line, q + 16))

\* themed edition: the text after the first ':' of a line, leading spaces
\* dropped; "" when the line holds no ':'
AfterColon(line) ==
  LET colon == Find(line, ":", 1) IN
  IF colon = 0 THEN "" ELSE EraseLeadingSpaces(SubstrFrom(line, colon + 1))

NonEmpty(seq) == SelectSeq(seq, LAMBDA x : x # "")
MapSeq(Op(_), seq) == [q \in 1..Len(seq) |-> Op(seq[q])]

\* head -3: the first three lines
Head3(lines) == [q \in 1..Min(3, Len(lines)) |-> lines[q]]

\* e.dns is what  scutil --dns | grep 'nameserver\[0\]'  prints
getDNS(ed, e) ==
  IF ed = "plain"
  THEN NonEmpty(Head3(MapSeq(SedNameserver, Lines(e.dns))))
  ELSE LET dns_servers ==
             NonEmpty(MapSeq(AfterColon, Head3(Lines(e.dns))))
       IN  IF dns_servers = <<>> THEN <<"N/A">> ELSE dns_servers

(***************************************************************************)
(* Collector calls within one process: the function-local statics          *)
(***************************************************************************)
Collectors ==
  {"getOSName", "getKernelVersion", "getHostname", "getCurrentUser",
   "getCPUInfo", "getDNS", "getClientIP"}

NoCPU ==
  [model |-> "", cores_physical |-> 0, cores_logical |-> 0, sockets |-> 0,
   load_1 |-> Fin(0, 1), load_5 |-> Fin(0, 1), load_15 |-> Fin(0, 1)]

\* what a call returned: a string, a list or a CPU snapshot
Ret(str, list, cpu) == [str |-> str, list |-> list, cpu |-> cpu]
StrRet(str) == Ret(str, <<>>, NoCPU)
ListRet(list) == Ret("", list, NoCPU)
CpuRet(cpu) == Ret("", <<>>, cpu)

\* the answers a call can be given; each call draws the ones it consults
BaseAnswers ==
  [user |-> Value("al"), ssh_client |-> NULL, who |-> "", last |-> "",
   uptime |-> "", dns |-> "", ident |-> "ok", load_1 |-> 200,
   physicalcpu |-> 4, ncpu |-> 8]
IdentAnswers ==
  {[BaseAnswers EXCEPT !.ident = i] : i \in {"ok", "nocmd", "fail"}}
UserAnswers ==
  {[BaseAnswers EXCEPT !.user = u, !.ident = i] :
     u \in {NULL, Value(""), Value("al")}, i \in {"ok", "fail"}}
CpuAnswers ==
  {[BaseAnswers EXCEPT !.load_1 = l, !.physicalcpu = c[1], !.ncpu = c[2]] :
     l \in {200, 1200}, c \in {<<4, 8>>, <<2, 4>>}}
DnsOutputs ==
  {"", "nameserver[0] : 8.8.8.8\n",
   "nameserver[0] : 8.8.8.8\nnameserver[0] : 1.1.1.1\n",
   "nameserver[0] : fe80::1\n",
   "nameserver[0] : 1.1.1.1\nnameserver[0] : 2.2.2.2\nnameserver[0] : 3.3.3.3\nnameserver[0] : 4.4.4.4\n"}
DnsAnswers == {[BaseAnswers EXCEPT !.dns = d] : d \in DnsOutputs}
ClientAnswers ==
  {[BaseAnswers EXCEPT !.ssh_client = c, !.who = w] :
     c \in {NULL, Value(""), Value("1.2.3.4 5 22"), Value("1.2.3.4\t5 22"),
            Value(" 1.2.3.4 5 22")},
     w \in {"", "al console Jan 1 10:00", "al ttys000 Jan 1 10:00 (5.6.7.8)"}}

CacheInit ==
  /\ statics = [cached_os_name |-> "", cached_kernel |-> "",
                cached_hostname |-> "", cached_user |-> "",
                initialized |-> FALSE, cached_info |-> NoCPU,
                cached_dns |-> <<>>]
  /\ lastCall = [fn |-> "", queried |-> FALSE, answers |-> BaseAnswers,
                 ret |-> StrRet("")]
  /\ history = [c \in Collectors |->
                  [calls |-> 0, writes |-> 0, first |-> StrRet("")]]

\* the end of a call: what the process remembers of it (queried: the query
\* behind the memoizable value was issued; seen: the answers the call
\* consulted)
Returned(fn, queried, wrote, seen, ret) ==
  /\ lastCall' = [fn |-> fn, queried |-> queried, answers |-> seen,
                  ret |-> ret]
  /\ history' = [history EXCEPT
                   ![fn] = [calls |-> @.calls + 1,
                            writes |-> @.writes + (IF wrote THEN 1 ELSE 0),
                            first |-> IF @.calls = 0 THEN ret ELSE @.first]]
  /\ nCalls' = nCalls + 1
  /\ UNCHANGED <<edition, cached_total_mem, memIn, memRet, diskIn, diskRet>>

\* A collector that keeps its value in a static string, filled while it is
\* empty (plain edition); the themed edition keeps nothing and asks anew.
CallCachedString(fn, field, answers, Query(_, _)) ==
  /\ nCalls < MaxCalls
  /\ \E e \in answers :
       LET miss == edition = "themed" \/ statics[field] = ""
           value == IF miss THEN Query(edition, e) ELSE statics[field]
           wrote == edition = "plain" /\ miss
       IN  /\ statics' = IF wrote THEN [statics EXCEPT ![field] = value]
                         ELSE statics
           /\ Returned(fn, miss, wrote, IF miss THEN e ELSE BaseAnswers,
                       StrRet(value))

CallGetOSName ==
  CallCachedString("getOSName", "cached_os_name", IdentAnswers, getOSName)
CallGetKernelVersion ==
  CallCachedString("getKernelVersion", "cached_kernel", IdentAnswers,
                   getKernelVersion)
CallGetHostname ==
  CallCachedString("getHostname", "cached_hostname", IdentAnswers, getHostname)
CallGetCurrentUser ==
  CallCachedString("getCurrentUser", "cached_user", UserAnswers,
                   getCurrentUser)

\* a mutant of CallGetCPUInfo: the load averages are memoized with the rest
CallGetCPUInfoStale ==
  /\ nCalls < MaxCalls
  /\ \E e \in CpuAnswers :
       LET miss == edition = "themed" \/ ~statics.initialized
           fresh == getCPUInfo(edition, e, NoUnset)
           info == IF miss THEN fresh ELSE statics.cached_info
           wrote == edition = "plain" /\ miss
       IN  /\ statics' = IF wrote
                         THEN [statics EXCEPT !.initialized = TRUE,
                                              !.cached_info = fresh]
                         ELSE statics
           /\ Returned("getCPUInfo", miss, wrote, e, CpuRet(info))

\* getCPUStaticInfo fills its static once, under the flag initialized (plain
\* edition); the load averages are asked on every call
CallGetCPUInfo ==
  /\ nCalls < MaxCalls
  /\ \E e \in CpuAnswers :
       LET miss == edition = "themed" \/ ~statics.initialized
           fresh == getCPUInfo(edition, e, NoUnset)
           static_info == IF miss THEN fresh ELSE statics.cached_info
           info == [static_info EXCEPT !.load_1 = fresh.load_1,
                                       !.load_5 = fresh.load_5,
                                       !.load_15 = fresh.load_15]
           wrote == edition = "plain" /\ miss
       IN  /\ statics' = IF wrote
                         THEN [statics EXCEPT !.initialized = TRUE,
                                              !.cached_info = fresh]
                         ELSE statics
           /\ Returned("getCPUInfo", miss, wrote, e, CpuRet(info))

\* getDNS fills its static list while the list is empty (plain edition)
CallGetDNS ==
  /\ nCalls < MaxCalls
  /\ \E e \in DnsAnswers :
       LET miss == edition = "themed" \/ statics.cached_dns = <<>>
           value == IF miss THEN getDNS(edition, e) ELSE statics.cached_dns
           wrote == edition = "plain" /\ miss /\ value # <<>>
       IN  /\ statics' = IF wrote THEN [statics EXCEPT !.cached_dns = value]
                         ELSE statics
           /\ Returned("getDNS", miss, wrote, IF miss THEN e ELSE BaseAnswers,
                       ListRet(value))

\* getClientIP keeps nothing; the call reads "who am i" only in the plain
\* edition and only when SSH_CLIENT is unset
CallGetClientIP ==
  /\ nCalls < MaxCalls
  /\ \E e \in ClientAnswers :
       /\ UNCHANGED statics
       /\ Returned("getClientIP", edition = "plain" /\ ~e.ssh_client.set,
                   FALSE, e, StrRet(getClientIP(edition, e)))

(***************************************************************************)
(* Column width                                                            *)
(***************************************************************************)
REPORT_TITLE == "SYSTEM STATUS REPORT"

\* the bytes of the kaomoji constants
KAWAII_CPU ==
  <<225, 149, 153, 40, 226, 135, 128, 226, 128, 184, 226, 134, 188, 226, 128,
    182, 41, 225, 149, 151>>
KAWAII_MEM ==
  <<40, 239, 189, 161, 226, 151, 149, 226, 128, 191, 226, 151, 149, 239, 189,
    161, 41>>
KAWAII_DISK ==
  <<226, 156, 167, 40, 239, 189, 161, 226, 128, 162, 204, 128, 225, 180, 151,
    45, 41, 226, 156, 167>>
KAWAII_TIME ==
  <<226, 184, 156, 40, 239, 189, 161, 203, 131, 32, 225, 181, 149, 32, 203,
    130, 32, 41, 226, 184, 157, 226, 153, 161>>
NoKaomoji == <<>>

\* getDisplayWidth run to its return; on a string where an iteration does not
\* advance the loop never returns, and the width so far stands for that
RECURSIVE WidthLoop(_, _, _)
WidthLoop(str, i, width) ==
  IF i >= Len(str) THEN width
  ELSE LET r == WidthIter(str, i, width) IN
       IF r.i = i THEN width ELSE WidthLoop(str, r.i, r.width)
getDisplayWidth(str) == WidthLoop(str, 0, 0)

\* A value of the report: text, ASCII in every environment of the model,
\* after a kaomoji and a blank in the themed edition's decorated values.
Plain(text) == [kaomoji |-> NoKaomoji, text |-> text]
Decorated(kaomoji, text) == [kaomoji |-> kaomoji, text |-> text]

\* the length maxLength takes of one string: str.length() in the plain
\* edition, getDisplayWidth(str) in the themed one
LengthOf(ed, v) ==
  IF ed = "plain" THEN Len(v.text)
  ELSE IF v.kaomoji = NoKaomoji THEN Len(v.text)
  ELSE getDisplayWidth(v.kaomoji \o <<32>>) + Len(v.text)

RECURSIVE MaxOver(_, _, _)
MaxOver(ed, strings, max_len) ==
  IF strings = <<>> THEN max_len
  ELSE MaxOver(ed, Tail(strings), Max(max_len, LengthOf(ed, Head(strings))))

\* a mutant of maxLength: the longest string, not clamped
maxLengthUnclamped(ed, strings) == MaxOver(ed, strings, 0)

maxLength(ed, strings) ==
  IF ed = "plain"
  THEN Min(MaxOver(ed, strings, 0), MAX_DATA_LEN)
  ELSE Max(Min(MaxOver(ed, strings, MIN_DATA_LEN), MAX_DATA_LEN), MIN_DATA_LEN)

(***************************************************************************)
(* main: the strings it derives and the lines it prints                    *)
(***************************************************************************)
cpu_cores_str(l) ==
  to_string(l.cpu.cores_physical) \o " vCPU(s) / " \o
  to_string(l.cpu.sockets) \o " Socket(s)"

\* a mutant of LoadPercent: the ratio is not scaled to a percentage
LoadRatio(load, cores_logical) == RatDivInt(load, cores_logical)

LoadPercent(load, cores_logical) == RatTimes100(RatDivInt(load, cores_logical))

cpu_usage_str(l) ==
  Fixed2(LoadPercent(l.cpu.load_1, l.cpu.cores_logical)) \o "%"

mem_usage_str(l) ==
  formatGiB(l.mem.used) \o "/" \o formatGiB(l.mem.total) \o " GiB [" \o
  Fixed2(l.mem.percent) \o "%]"

disk_usage_str(l) ==
  formatBytes(l.disk.used) \o "/" \o formatBytes(l.disk.total) \o " GB [" \o
  Fixed2(l.disk.percent) \o "%]"

all_strings(ed, l) ==
  LET deco(k, t) == IF ed = "plain" THEN Plain(t) ELSE Decorated(k, t) IN
  << Plain(REPORT_TITLE), Plain(l.os_name), Plain(l.os_kernel),
     Plain(l.net_hostname), Plain(l.net_machine_ip), Plain(l.net_client_ip),
     Plain(l.net_current_user), deco(KAWAII_CPU, l.cpu.model),
     Plain(cpu_cores_str(l)), Plain("Bare Metal"), Plain(cpu_usage_str(l)),
     deco(KAWAII_MEM, mem_usage_str(l)), deco(KAWAII_DISK, disk_usage_str(l)),
     deco(KAWAII_TIME, l.login.time), Plain(l.login.ip),
     Plain(l.login.uptime) >>

graph_width(len) == IF len > MAX_DATA_LEN - 3 THEN MAX_DATA_LEN - 3 ELSE len

\* one line of output: what printed it, and its arguments (the colour and
\* the kaomoji are the themed edition's; "" and no bytes in the plain one)
Line(kind, name, data, bar, color, kaomoji) ==
  [kind |-> kind, name |-> name, data |-> data, bar |-> bar,
   color |-> color, kaomoji |-> kaomoji]
HeaderLine(which) == Line("header", which, "", <<>>, "", NoKaomoji)
Centered(text, color) == Line("centered", "", text, <<>>, color, NoKaomoji)
Divider(side) == Line("divider", side, "", <<>>, "", NoKaomoji)
Data(name, data, color, kaomoji) ==
  Line("data", name, data, <<>>, color, kaomoji)
Graph(name, bar, color) == Line("graph", name, "", bar, color, NoKaomoji)

\* the themed edition's titles, written here without their decorations: the
\* bytes around the words are outside ASCII
SPARKLE_TITLE == "SYSTEM STATUS REPORT"
UWU_TITLE == "uwu TR-1000 Machine Report"

\* the print statements of the plain edition's main, in order
ReportPlain(l, len) ==
  LET bar(p) == drawBarGraph("plain", p, graph_width(len))
      load(x) == LoadPercent(x, l.cpu.cores_logical)
      D(name, data) == Data(name, data, "", NoKaomoji)
      G(name, b) == Graph(name, b, "")
  IN
  <<HeaderLine("top"), HeaderLine("bottom"),
    Centered(REPORT_TITLE, ""), Centered("TR-1000 MACHINE REPORT", ""),
    Divider("top"),
    D("OS", l.os_name), D("KERNEL", l.os_kernel), Divider(""),
    D("HOSTNAME", l.net_hostname), D("MACHINE IP", l.net_machine_ip),
    D("CLIENT  IP", l.net_client_ip)>>
  \o [q \in 1..Len(l.net_dns_ip) |->
        D("DNS  IP " \o to_string(q), l.net_dns_ip[q])]
  \o <<D("USER", l.net_current_user), Divider(""),
       D("PROCESSOR", l.cpu.model), D("CORES", cpu_cores_str(l)),
       D("HYPERVISOR", "Bare Metal"), D("CPU USAGE", cpu_usage_str(l)),
       G("LOAD  1m", bar(load(l.cpu.load_1))),
       G("LOAD  5m", bar(load(l.cpu.load_5))),
       G("LOAD 15m", bar(load(l.cpu.load_15))), Divider(""),
       D("VOLUME", disk_usage_str(l)), G("DISK USAGE", bar(l.disk.percent)),
       Divider(""),
       D("MEMORY", mem_usage_str(l)), G("USAGE", bar(l.mem.percent)),
       Divider(""),
       D("LAST LOGIN", l.login.time)>>
  \o (IF l.login.ip_present THEN <<D("", l.login.ip)>> ELSE <<>>)
  \o <<D("UPTIME", l.login.uptime), Divider("bottom")>>

\* the print statements of the themed edition's main, in order; its
\* printHeader writes nothing
ReportThemed(l, len) ==
  LET bar(p) == drawBarGraph("themed", p, graph_width(len))
      load(x) == LoadPercent(x, l.cpu.cores_logical)
      D(name, data, color) == Data(name, data, color, NoKaomoji)
  IN
  <<Centered(SPARKLE_TITLE, "PINK"), Centered(UWU_TITLE, "CYAN"),
    Divider("top"),
    D("OS", l.os_name, "CYAN"), D("KERNEL", l.os_kernel, "CYAN"),
    Divider(""),
    D("HOSTNAME", l.net_hostname, "BLUE"),
    D("MACHINE IP", l.net_machine_ip, "BLUE"),
    D("CLIENT IP", l.net_client_ip, "BLUE")>>
  \o [q \in 1..Len(l.net_dns_ip) |->
        D("DNS IP " \o to_string(q), l.net_dns_ip[q], "BLUE")]
  \o <<D("USER", l.net_current_user, "PURPLE"), Divider(""),
       Data("PROCESSOR", l.cpu.model, "YELLOW", KAWAII_CPU),
       D("CORES", cpu_cores_str(l), "YELLOW"),
       D("HYPERVISOR", "Bare Metal", "YELLOW"),
       D("CPU USAGE", cpu_usage_str(l), "YELLOW"),
       Graph("LOAD 1m", bar(load(l.cpu.load_1)), "GREEN"),
       Graph("LOAD 5m", bar(load(l.cpu.load_5)), "GREEN"),
       Graph("LOAD 15m", bar(load(l.cpu.load_15)), "GREEN"), Divider(""),
       Data("VOLUME", disk_usage_str(l), "PINK", KAWAII_DISK),
       Graph("DISK USAGE", bar(l.disk.percent), "PINK"), Divider(""),
       Data("MEMORY", mem_usage_str(l), "PURPLE", KAWAII_MEM),
       Graph("USAGE", bar(l.mem.percent), "PURPLE"), Divider(""),
       Data("LAST LOGIN", l.login.time, "CYAN", KAWAII_TIME),
       D("UPTIME", l.login.uptime, "GREEN"), Divider("bottom")>>

\* a main that writes the bottom border before everything else
ReportBottomFirst(ed, l, len) ==
  LET r == IF ed = "plain" THEN ReportPlain(l, len) ELSE ReportThemed(l, len)
  IN  <<r[Len(r)]>> \o SubSeq(r, 1, Len(r) - 1)

Report(ed, l, len) ==
  IF ed = "plain" THEN ReportPlain(l, len) ELSE ReportThemed(l, len)

\* printData: the value as it leaves a non-graph row, before padding; the
\* values of the model are ASCII, so length and display width agree
ShownData(data) ==
  IF Len(data) >= MAX_DATA_LEN
  THEN SubSeq(data, 1, MAX_DATA_LEN - 4) \o "..." ELSE data

\* printData: the label as it is written: cut to MAX_NAME_LEN - 3 characters
\* and "..." when longer than MAX_NAME_LEN; the plain edition resizes it to
\* MAX_NAME_LEN with blanks, the themed one writes the blanks after the ':'
ShownName(ed, name) ==
  LET cut == IF Len(name) > MAX_NAME_LEN
             THEN SubSeq(name, 1, MAX_NAME_LEN - 3) \o "..." ELSE name
  IN  IF ed = "plain" /\ Len(cut) < MAX_NAME_LEN
      THEN cut \o SubSeq("             ", 1, MAX_NAME_LEN - Len(cut))
      ELSE cut

\* printData: the columns the value of a row takes on the terminal. Plain
\* edition: a bar is padded with blanks up to current_len (data.length() / 3
\* is its number of glyphs), a text of MAX_DATA_LEN characters or more is cut
\* and not padded, a shorter one is resized up to current_len. Themed edition:
\* emoji_str, then the glyphs of the bar (its colour sequences take no
\* column) or the (cut) text, no padding.
PrintedValueWidth(ed, line, len) ==
  IF ed = "plain"
  THEN IF line.kind = "graph" THEN Max(Len(line.bar), len)
       ELSE IF Len(line.data) >= MAX_DATA_LEN THEN Len(ShownData(line.data))
       ELSE Max(Len(line.data), len)
  ELSE (IF line.kaomoji = NoKaomoji THEN 0
        ELSE getDisplayWidth(line.kaomoji \o <<32>>))
       + (IF line.kind = "graph"
          THEN Len(SelectSeq(line.bar,
                             LAMBDA g : g \in {"filled_bar", "empty_bar"}))
          ELSE Len(ShownData(line.data)))

\* Plain edition: the columns of the lines the print functions write.
\* const int length = current_len + MAX_NAME_LEN + BORDERS_AND_PADDING;
LineLength(len) == len + MAX_NAME_LEN + BORDERS_AND_PADDING

\* printHeader: a corner, length - 2 junctions, a corner (each of its 2 lines)
HeaderColumns(len) == 1 + Max(LineLength(len) - 2, 0) + 1

\* printCenteredData: a bar, the text between its paddings, a bar (for a
\* text no longer than total_width)
CenteredColumns(text, len) ==
  LET max_len == len + MAX_NAME_LEN - BORDERS_AND_PADDING
      total_width == max_len + 12
      padding_left == (total_width - Len(text)) \div 2
      padding_right == total_width - Len(text) - padding_left
  IN  1 + padding_left + Len(text) + padding_right + 1

\* printDivider: the left symbol, length - 3 dashes with the middle symbol
\* after the dash of i == 14, the right symbol
DividerColumns(len) ==
  LET dashes == Max(LineLength(len) - 3, 0) IN
  1 + dashes + (IF dashes > 14 THEN 1 ELSE 0) + 1
\* the column of the middle symbol (the first column is 1)
DividerJunction(len) == 1 + 15 + 1

\* printData: "| " name " | " data " |"
DataColumns(line, len) ==
  2 + Len(ShownName("plain", line.name)) + 3
    + PrintedValueWidth("plain", line, len) + 2
\* the column of the bar between name and data
DataSeparator(line) == 2 + Len(ShownName("plain", line.name)) + 1 + 1

LineColumns(line, len) ==
  CASE line.kind = "header" -> HeaderColumns(len)
    [] line.kind = "centered" -> CenteredColumns(line.data, len)
    [] line.kind = "divider" -> DividerColumns(len)
    [] OTHER -> DataColumns(line, len)

(***************************************************************************)
(* A run of the program: main and its three std::async tasks               *)
(***************************************************************************)
Tasks == {"dns", "client_ip", "login"}

RunInit ==
  /\ env \in Environments
  /\ pcMain = "launch_dns"
  /\ task = [t \in Tasks |-> "unborn"]
  /\ fut = [dns |-> <<>>, client_ip |-> "",
            login |-> LoginInfo("", "", FALSE, "")]
  /\ loc = [os_name |-> "", os_kernel |-> "", net_hostname |-> "",
            net_machine_ip |-> "", net_current_user |-> "",
            cpu |-> [model |-> "", cores_physical |-> 0, cores_logical |-> 0,
                     sockets |-> 0, load_1 |-> Fin(0, 1), load_5 |-> Fin(0, 1),
                     load_15 |-> Fin(0, 1)],
            mem |-> MemInfo(0, 0, Fin(0, 1)),
            disk |-> DiskInfo(0, 0, Fin(0, 1)),
            net_dns_ip |-> <<>>, net_client_ip |-> "",
            login |-> LoginInfo("", "", FALSE, "")]
  /\ current_len = 0
  /\ out = <<>>
  /\ exitCode = "running"
  /\ accesses = {}

RunIdle ==
  /\ env = [user |-> NULL, ssh_client |-> NULL, who |-> "", last |-> "",
            uptime |-> "", dns |-> "", ident |-> "fail", load_1 |-> 0,
            physicalcpu |-> 0, ncpu |-> 0]
  /\ pcMain = "idle"
  /\ task = [t \in Tasks |-> "unborn"]
  /\ fut = [dns |-> <<>>, client_ip |-> "",
            login |-> LoginInfo("", "", FALSE, "")]
  /\ loc = [os_name |-> ""]
  /\ current_len = 0
  /\ out = <<>>
  /\ exitCode = "running"
  /\ accesses = {}

\* Collector results handed to the formatting part of main: identity strings
\* short and long, loads and memory use over several ratios, resolver lists
\* and login records of several shapes.
LongText == "0123456789012345678901234567890123456789"
RenderInputs ==
  {[os_name |-> os, os_kernel |-> "Darwin 24.6.0", net_hostname |-> "mac",
    net_machine_ip |-> "10.0.0.5", net_current_user |-> "al",
    cpu |-> [model |-> model, cores_physical |-> 4,
             cores_logical |-> cores, sockets |-> 1, load_1 |-> Fin(l, 100),
             load_5 |-> Fin(100, 100), load_15 |-> Fin(50, 100)],
    mem |-> MemInfo(MemSize, used, PercentOf(used, MemSize)),
    disk |-> DiskInfo(6, 2, PercentOf(2, 6)),
    net_dns_ip |-> dns, net_client_ip |-> "Not connected", login |-> lg] :
     os \in {"", "macOS 15.6", LongText},
     model \in {"Apple M1", "Intel(R) Core(TM) i7-9750H"},
     cores \in {3, 8},
     l \in {0, 50, 200, 1200},
     used \in {0, 5, 8, MemSize},
     dns \in {<<>>, <<"8.8.8.8", "1.1.1.1">>, <<LongText>>},
     lg \in {LoginInfo("Never logged in", "", FALSE, ""),
             LoginInfo("Mon Jan 1 10:00", "1.2.3.4", TRUE, "3d 4h 15m")}}

\* main has taken the three results and is about to format them
RenderInit ==
  /\ env = BaseAnswers
  /\ pcMain = "render"
  /\ task = [t \in Tasks |-> "taken"]
  /\ loc \in RenderInputs
  /\ fut = [dns |-> loc.net_dns_ip, client_ip |-> loc.net_client_ip,
            login |-> loc.login]
  /\ current_len = 0
  /\ out = <<>>
  /\ exitCode = "running"
  /\ accesses = {}

Alive == exitCode = "running"

\* auto future_x = std::async(std::launch::async, getX);
Launch(t, pc, next) ==
  /\ Alive
  /\ pcMain = pc
  /\ task' = [task EXCEPT ![t] = "running"]
  /\ pcMain' = next
  /\ UNCHANGED <<edition, env, fut, loc, current_len, out, exitCode, colVars,
                 accesses>>

LaunchDNS == Launch("dns", "launch_dns", "launch_client_ip")
LaunchClientIP == Launch("client_ip", "launch_client_ip", "launch_login")
LaunchLogin == Launch("login", "launch_login", "collect")

\* One access of a location that outlives a function call: a static, the
\* shared state of a future, an environment variable. joined: the tasks whose
\* results main had taken when it made the access (none for a task's own).
Access(who, where, write, joined) ==
  [who |-> who, where |-> where, write |-> write, joined |-> joined]
Joined == {t \in Tasks : task[t] = "taken"}

\* A build in which the caches of the collectors are one file-scope object.
TouchesOneCache(ed, fn) == {<<"cache", TRUE>>}

\* the locations a collector touches: its function-local statics in the plain
\* edition (the themed edition has none), the environment variable it reads,
\* the static buffer of getpwuid
Touches(ed, fn) ==
  CASE fn = "getDNS" ->
         IF ed = "plain" THEN {<<"cached_dns", TRUE>>} ELSE {}
    [] fn = "getClientIP" -> {<<"SSH_CLIENT", FALSE>>}
    [] fn = "getLastLogin" ->
         IF ed = "plain" THEN {<<"USER", FALSE>>} ELSE {}
    [] fn = "main" ->
         IF ed = "plain"
         THEN {<<"cached_os_name", TRUE>>, <<"cached_kernel", TRUE>>,
               <<"cached_hostname", TRUE>>, <<"cached_user", TRUE>>,
               <<"USER", FALSE>>, <<"cached_info", TRUE>>,
               <<"initialized", TRUE>>, <<"cached_total_mem", TRUE>>,
               <<"page_size", TRUE>>}
         ELSE {<<"getpwuid", TRUE>>}

Accesses(who, ed, fn, joined) ==
  {Access(who, x[1], x[2], joined) : x \in Touches(ed, fn)}

\* a task runs its collector and makes the future ready
Complete(t, fn, value) ==
  /\ fut' = [fut EXCEPT ![t] = value]
  /\ task' = [task EXCEPT ![t] = "ready"]
  /\ accesses' = accesses \cup Accesses(t, edition, fn, {})
                           \cup {Access(t, "future_" \o t, TRUE, {})}
  /\ UNCHANGED <<edition, env, pcMain, loc, current_len, out, exitCode, colVars>>

RunDNS ==
  /\ Alive
  /\ task["dns"] = "running"
  /\ Complete("dns", "getDNS", getDNS(edition, env))

RunClientIP ==
  /\ Alive
  /\ task["client_ip"] = "running"
  /\ Complete("client_ip", "getClientIP", getClientIP(edition, env))

\* getLastLogin: with USER unset the plain edition's behaviour is undefined;
\* the process is ended by a signal, or the call goes on
RunLogin ==
  /\ Alive
  /\ task["login"] = "running"
  /\ \/ /\ LoginUserUndefined(edition, env.user)
        /\ task' = [task EXCEPT !["login"] = "crashed"]
        /\ exitCode' = "SIGSEGV"
        /\ accesses' = accesses \cup Accesses("login", edition, "getLastLogin", {})
        /\ UNCHANGED <<edition, env, pcMain, fut, loc, current_len, out, colVars>>
     \/ Complete("login", "getLastLogin",
                 getLastLogin(edition, env.last, env.uptime))

\* the synchronous collectors, from getOSName to getDiskInfo
Collect ==
  /\ Alive
  /\ pcMain = "collect"
  /\ \E unset \in Garbage,
        cores \in IF edition = "themed" /\ env.ident = "fail"
                  THEN UnsetCores ELSE {NoUnset} :
       loc' = [loc EXCEPT
                 !.os_name = getOSName(edition, env),
                 !.os_kernel = getKernelVersion(edition, env),
                 !.net_hostname = getHostname(edition, env),
                 !.net_machine_ip = getMachineIP(edition, env),
                 !.net_current_user = getCurrentUser(edition, env),
                 !.cpu = getCPUInfo(edition, env, cores),
                 !.mem = IF edition = "plain"
                         THEN getMemInfoPlain(cached_total_mem, RunMemQuery)
                         ELSE getMemInfoThemed(RunMemQuery, unset),
                 !.disk = getDiskInfo(edition, RunStatfs)]
  /\ cached_total_mem' = IF edition = "plain"
                         THEN CachedTotalAfter(cached_total_mem, RunMemQuery)
                         ELSE cached_total_mem
  /\ pcMain' = "join_dns"
  /\ accesses' = accesses \cup Accesses("main", edition, "main", Joined)
  /\ UNCHANGED <<edition, env, task, fut, current_len, out, exitCode,
                 memIn, memRet, diskIn, diskRet, nCalls>>

\* a mutant of JoinLogin: main does not wait for the task
JoinLoginNoWait ==
  /\ Alive
  /\ pcMain = "join_login"
  /\ loc' = [loc EXCEPT !.login = fut["login"]]
  /\ pcMain' = "render"
  /\ accesses' = accesses \cup {Access("main", "future_login", FALSE, Joined)}
  /\ UNCHANGED <<edition, env, task, fut, current_len, out, exitCode, colVars>>

\* const auto x = future_x.get(): blocks until the task has made it ready
JoinDNS ==
  /\ Alive
  /\ pcMain = "join_dns"
  /\ task["dns"] = "ready"
  /\ loc' = [loc EXCEPT !.net_dns_ip = fut["dns"]]
  /\ task' = [task EXCEPT !["dns"] = "taken"]
  /\ pcMain' = "join_client_ip"
  /\ accesses' = accesses \cup {Access("main", "future_dns", FALSE,
                                         Joined \cup {"dns"})}
  /\ UNCHANGED <<edition, env, fut, current_len, out, exitCode, colVars>>

JoinClientIP ==
  /\ Alive
  /\ pcMain = "join_client_ip"
  /\ task["client_ip"] = "ready"
  /\ loc' = [loc EXCEPT !.net_client_ip = fut["client_ip"]]
  /\ task' = [task EXCEPT !["client_ip"] = "taken"]
  /\ pcMain' = "join_login"
  /\ accesses' = accesses \cup {Access("main", "future_client_ip", FALSE,
                                         Joined \cup {"client_ip"})}
  /\ UNCHANGED <<edition, env, fut, current_len, out, exitCode, colVars>>

JoinLogin ==
  /\ Alive
  /\ pcMain = "join_login"
  /\ task["login"] = "ready"
  /\ loc' = [loc EXCEPT !.login = fut["login"]]
  /\ task' = [task EXCEPT !["login"] = "taken"]
  /\ pcMain' = "render"
  /\ accesses' = accesses \cup {Access("main", "future_login", FALSE,
                                         Joined \cup {"login"})}
  /\ UNCHANGED <<edition, env, fut, current_len, out, exitCode, colVars>>

\* from cpu_cores_str to printDivider("bottom", current_len)
Render ==
  /\ Alive
  /\ pcMain = "render"
  /\ current_len' = maxLength(edition, all_strings(edition, loc))
  /\ out' = Report(edition, loc, current_len')
  /\ pcMain' = "return"
  /\ UNCHANGED <<edition, env, task, fut, loc, exitCode, colVars, accesses>>

\* A load divided by a logical core count of 0 is +inf, and drawBarGraph
\* casts (inf / 100.0) * width to int, which is undefined: where the cast
\* gives the smallest int the loops of Render write no filled glyph, where it
\* gives the largest one the first loop appends glyphs until the string can
\* grow no more and the process ends.
BarOverflows(l) ==
  \E x \in {l.cpu.load_1, l.cpu.load_5, l.cpu.load_15} :
    LoadPercent(x, l.cpu.cores_logical).k = "inf"

RenderHugeBar ==
  /\ Alive
  /\ pcMain = "render"
  /\ BarOverflows(loc)
  /\ exitCode' = "SIGABRT"
  /\ pcMain' = "crashed"
  /\ UNCHANGED <<edition, env, task, fut, loc, current_len, out, colVars,
                 accesses>>

\* return 0;
Return ==
  /\ Alive
  /\ pcMain = "return"
  /\ exitCode' = "0"
  /\ pcMain' = "exited"
  /\ UNCHANGED <<edition, env, task, fut, loc, current_len, out, colVars,
                 accesses>>

(***************************************************************************)
(* Specifications                                                          *)
(***************************************************************************)
BarSpecInit ==
  edition \in Editions /\ BarInit /\ LoginIdle /\ WidthIdle /\ ColInit /\ RunIdle /\ CacheInit
BarSpecNext ==
  CallDrawBarGraph
    /\ UNCHANGED <<loginVars, widthVars, colVars, runVars, cacheVars>>
BarSpec == BarSpecInit /\ [][BarSpecNext]_vars

LoginSpecInit ==
  edition \in Editions /\ LoginInit /\ BarIdle /\ WidthIdle /\ ColInit /\ RunIdle /\ CacheInit
LoginSpecNext ==
  CallGetLastLogin
    /\ UNCHANGED <<barVars, widthVars, colVars, runVars, cacheVars>>
LoginSpec == LoginSpecInit /\ [][LoginSpecNext]_vars

\* getDisplayWidth exists in the themed edition only
WidthSpecInit ==
  edition = "themed" /\ WidthInit /\ BarIdle /\ LoginIdle /\ ColInit /\ RunIdle /\ CacheInit
WidthSpecNext ==
  (WidthStep \/ WidthReturn)
    /\ UNCHANGED <<barVars, loginVars, colVars, runVars, cacheVars>>
WidthSpec == WidthSpecInit /\ [][WidthSpecNext]_vars

\* any sequence of collector calls within one process
ColSpecInit ==
  edition \in Editions /\ ColInit /\ BarIdle /\ LoginIdle /\ WidthIdle /\ RunIdle /\ CacheInit
ColSpecNext ==
  (CallGetMemInfo \/ CallGetDiskInfo)
    /\ UNCHANGED <<barVars, loginVars, widthVars, runVars, cacheVars>>
ColSpec == ColSpecInit /\ [][ColSpecNext]_vars

\* one run of the program, in either edition and any environment
Init ==
  /\ edition \in Editions
  /\ RunInit /\ ColInit /\ BarIdle /\ LoginIdle /\ WidthIdle /\ CacheInit
Next ==
  (\/ LaunchDNS \/ LaunchClientIP \/ LaunchLogin
   \/ RunDNS \/ RunClientIP \/ RunLogin
   \/ Collect \/ JoinDNS \/ JoinClientIP \/ JoinLogin
   \/ Render \/ RenderHugeBar \/ Return)
    /\ UNCHANGED <<barVars, loginVars, widthVars, cacheVars>>
Spec == Init /\ [][Next]_vars

\* the formatting and printing part of main, over collector results
RenderSpecInit ==
  /\ edition \in Editions
  /\ RenderInit /\ ColInit /\ BarIdle /\ LoginIdle /\ WidthIdle /\ CacheInit
RenderSpecNext ==
  (Render \/ Return) /\ UNCHANGED <<barVars, loginVars, widthVars, cacheVars>>
RenderSpec == RenderSpecInit /\ [][RenderSpecNext]_vars

\* a process that calls its collectors any number of times, in any order,
\* the system answering each query anew
CallSpecInit ==
  /\ edition \in Editions
  /\ CacheInit /\ ColInit /\ BarIdle /\ LoginIdle /\ WidthIdle /\ RunIdle
CallSpecNext ==
  \/ (\/ CallGetOSName \/ CallGetKernelVersion \/ CallGetHostname
      \/ CallGetCurrentUser \/ CallGetCPUInfo \/ CallGetDNS
      \/ CallGetClientIP)
       /\ UNCHANGED <<barVars, loginVars, widthVars, runVars>>
  \/ CallGetMemInfo
       /\ UNCHANGED <<barVars, loginVars, widthVars, runVars, cacheVars>>
CallSpec == CallSpecInit /\ [][CallSpecNext]_vars

\* a run in which every thread that can take a step is scheduled and every
\* external query returns
FairSpec == Spec /\ WF_vars(Next)

\* the glyphs of a bar, its escape sequences left out
Glyphs(g) == SelectSeq(g, LAMBDA t : t \in {"full_block", "light_shade",
                                            "filled_bar", "empty_bar"})
CountOf(g, t) == Len(SelectSeq(g, LAMBDA x : x = t))
\* every filled glyph precedes every empty glyph
FilledFirst(g, ed) ==
  \A a, b \in 1..Len(g) :
     (g[a] = FilledGlyph(ed) /\ g[b] = EmptyGlyph(ed)) => a < b

\* floor(num/den * W / 100), by repeated subtraction rather than division
RECURSIVE FloorQuot(_, _)
FloorQuot(a, b) == IF a < b THEN 0 ELSE 1 + FloorQuot(a - b, b)

C6_BarClamped ==
  (barPc = "done" /\ barIn.percent.num > 100 * barIn.percent.den) =>
    /\ CountOf(barOut, FilledGlyph(edition)) <= barIn.width
    /\ Len(Glyphs(barOut)) = barIn.width

\* C9: getLastLogin's uptime: "up 3 days, 4:15" gives "3d 4h 15m"; "up 4:15"
\* gives "4h 15m"; any other text (no "up ", no comma, no colon) is returned
\* unchanged as the uptime value.
C9_UptimeForms ==
  (loginPc = "done" /\ ~LoginUserUndefined(edition, loginIn.user)) =>
    /\ loginIn.uptime = "up 3 days, 4:15" => loginRet.uptime = "3d 4h 15m"
    /\ loginIn.uptime = "up 4:15" => loginRet.uptime = "4h 15m"
    /\ (/\ Find(loginIn.uptime, "up ", 1) = 0
        /\ Find(loginIn.uptime, ",", 1) = 0
        /\ Find(loginIn.uptime, ":", 1) = 0) => loginRet.uptime = loginIn.uptime

\* C1: in both editions and for every interleaving of the three tasks with
\* main, no line of the report is written before all three tasks have
\* completed and main has taken their results.
C1_NoOutputBeforeJoins ==
  out # <<>> => \A t \in Tasks : task[t] = "taken"

\* the report is on standard output, every result main printed is the one its
\* task produced, and the process has exited
C1_Witness ==
  /\ out # <<>>
  /\ \A t \in Tasks : task[t] = "taken"
  /\ loc.net_client_ip = fut["client_ip"]
  /\ loc.net_dns_ip = fut["dns"]
  /\ loc.login = fut["login"]
  /\ exitCode = "0"

\* the whole report, ending with the bottom divider
WholeReport ==
  /\ out = Report(edition, loc, current_len)
  /\ out[Len(out)] = Divider("bottom")

\* C2: when every query returns, main passes the three joins, writes the
\* whole report ending with the bottom divider and exits with code 0; no
\* other exit code and no deadlock is reachable.
C2_FullReportExitZero ==
  /\ [](exitCode \in {"running", "0"})
  /\ <>(exitCode = "0" /\ out # <<>> /\ WholeReport)

\* C3: each async collector returns a value to the join in every environment,
\* USER and SSH_CLIENT unset included; no collector ends in a crash or an
\* undefined state that aborts the run.
C3_CollectorsReturn == \A t \in Tasks : task[t] # "crashed"

\* the queries of a run that yield no data
NoOSName == env.ident # "ok"
NoCurrentUser ==
  IF edition = "plain" THEN ~env.user.set \/ env.user.val = ""
  ELSE env.ident = "fail"
NoCPUModel == env.ident = "fail"
NoClientIP == ~env.ssh_client.set \/ env.ssh_client.val = ""
NoLastLogin == env.last = ""
NoUptime == Find(env.uptime, "up ", 1) = 0

\* C4: when the query behind OS name, current user, CPU model, client IP,
\* last-login time or uptime yields no data, the value placed in the report
\* is a non-empty sentinel, never an empty or whitespace-only string.
C4_SentinelNeverBlank ==
  (pcMain \in {"return", "exited"} /\ ~LoginUserUndefined(edition, env.user)) =>
    /\ NoOSName => ~IsBlank(loc.os_name)
    /\ NoCurrentUser => ~IsBlank(loc.net_current_user)
    /\ NoCPUModel => ~IsBlank(loc.cpu.model)
    /\ NoClientIP => ~IsBlank(loc.net_client_ip)
    /\ NoLastLogin => ~IsBlank(loc.login.time)
    /\ NoUptime => ~IsBlank(loc.login.uptime)

\* the resolver addresses of the query output, line by line
Addresses(text) ==
  LET lines == Lines(text) IN
  [q \in 1..Len(lines) |-> SubstrFrom(lines[q], Len("nameserver[0] : ") + 1)]

\* C11: getDNS returns a list of at least one and at most 3 entries, in the
\* order of the resolver lines of the query output; when the output is empty
\* or holds no resolver address the result is exactly <<"N/A">>.
C11_DnsList ==
  lastCall.fn = "getDNS" =>
    /\ Len(lastCall.ret.list) >= 1
    /\ Len(lastCall.ret.list) <= 3
    /\ lastCall.queried =>
         LET addrs == Addresses(lastCall.answers.dns) IN
         /\ addrs = <<>> => lastCall.ret.list = <<"N/A">>
         /\ addrs # <<>> =>
              /\ Len(lastCall.ret.list) = Min(3, Len(addrs))
              /\ \A q \in 1..Len(lastCall.ret.list) :
                   lastCall.ret.list[q] = addrs[q]

\* C12: getClientIP returns the first whitespace-delimited field of SSH_CLIENT
\* when it is set, without consulting the session query; when it is unset it
\* returns the text between '(' and ')' of the session query's output,
\* "Not connected" when that output is empty, "Local Session" otherwise.
C12_ClientIP ==
  lastCall.fn = "getClientIP" =>
    LET e == lastCall.answers
        r == lastCall.ret.str
        open == Find(e.who, "(", 1)
        close == Find(e.who, ")", 1)
    IN  /\ e.ssh_client.set =>
             /\ r = FirstToken(e.ssh_client.val)
             /\ ~lastCall.queried
        /\ ~e.ssh_client.set =>
             /\ e.who = "" => r = "Not connected"
             /\ (open # 0 /\ close > open) =>
                  r = SubSeq(e.who, open + 1, close - 1)
             /\ (e.who # "" /\ ~(open # 0 /\ close > open)) =>
                  r = "Local Session"

\* the value shown by the data row labelled name of the written report
RowData(name) ==
  LET q == CHOOSE r \in 1..Len(out) :
             out[r].kind = "data" /\ out[r].name = name
  IN  ShownData(out[q].data)

\* reading a printed number back: the digits of s as a natural number
DigitVal(c) ==
  CASE c = "0" -> 0 [] c = "1" -> 1 [] c = "2" -> 2 [] c = "3" -> 3
    [] c = "4" -> 4 [] c = "5" -> 5 [] c = "6" -> 6 [] c = "7" -> 7
    [] c = "8" -> 8 [] c = "9" -> 9
RECURSIVE ToNat(_)
ToNat(s) ==
  IF Len(s) = 0 THEN 0
  ELSE 10 * ToNat(SubSeq(s, 1, Len(s) - 1)) + DigitVal(At(s, Len(s)))

\* s is digits, a point and exactly two digits
TwoDecimals(s) ==
  /\ Len(s) >= 4
  /\ At(s, Len(s) - 2) = "."
  /\ \A q \in (1..Len(s)) \ {Len(s) - 2} : IsDigit(At(s, q))

\* the hundredths a two-decimal text stands for
Hundredths(s) ==
  100 * ToNat(SubSeq(s, 1, Len(s) - 3)) + ToNat(SubSeq(s, Len(s) - 1, Len(s)))

\* text shows num/den to two decimal places, rounded to the nearest
ShowsTwoDecimals(text, num, den) ==
  /\ TwoDecimals(text)
  /\ 2 * Hundredths(text) * den - 200 * num <= den
  /\ 200 * num - 2 * Hundredths(text) * den <= den

\* the percentage inside the brackets of a usage text "a/b unit [p%]"
Bracketed(text) ==
  SubSeq(text, Find(text, "[", 1) + 1, Find(text, "%]", 1) - 1)

ValueWidths ==
  LET deco(w) == IF edition = "themed" THEN w + 1 ELSE 0 IN
  {Len(REPORT_TITLE), Len(loc.os_name), Len(loc.os_kernel),
   Len(loc.net_hostname), Len(loc.net_machine_ip), Len(loc.net_client_ip),
   Len(loc.net_current_user), deco(8) + Len(loc.cpu.model),
   Len(cpu_cores_str(loc)), Len("Bare Metal"), Len(cpu_usage_str(loc)),
   deco(7) + Len(mem_usage_str(loc)), deco(10) + Len(disk_usage_str(loc)),
   deco(14) + Len(loc.login.time), Len(loc.login.ip), Len(loc.login.uptime)}

\* the bar of the graph row labelled name of the written report
RowBar(name) ==
  LET q == CHOOSE r \in 1..Len(out) :
             out[r].kind = "graph" /\ out[r].name = name
  IN  out[q].bar

Memoized ==
  {"getOSName", "getKernelVersion", "getHostname", "getCurrentUser",
   "getCPUInfo", "getDNS"}

\* the memoizable part of a return value (of a CPU snapshot: all but the loads)
Identity(ret) ==
  [ret EXCEPT !.cpu = [@ EXCEPT !.load_1 = Fin(0, 1), !.load_5 = Fin(0, 1),
                                !.load_15 = Fin(0, 1)]]

\* the latest call was not the first call of its collector
LaterCall == lastCall.fn \in Memoized /\ history[lastCall.fn].calls > 1

\* C15: in the themed edition the memoized values are queried from the system
\* only on the first call of their collector; every later call returns the
\* cached value and performs no external query.
C15_ThemedQueriesOnce ==
  (edition = "themed" /\ LaterCall) =>
    /\ ~lastCall.queried
    /\ Identity(lastCall.ret) = Identity(history[lastCall.fn].first)

\* C16: in the plain edition, for every query outcome, each memoized value is
\* written to its cache at most once, and every call after the first returns
\* the same value without re-issuing the external query.
C16_PlainWrittenOnce ==
  edition = "plain" =>
    /\ \A c \in Memoized : history[c].writes <= 1
    /\ LaterCall =>
         /\ ~lastCall.queried
         /\ Identity(lastCall.ret) = Identity(history[lastCall.fn].first)

\* the used bytes a getMemInfo call is given by the page statistics
FreshUsed(q) == IF q.vm.ok THEN (q.vm.active + q.vm.wired) * PageSize ELSE 0

\* C17: in the plain edition every getCPUInfo call returns the load averages
\* of that call's query and every getMemInfo call the active+wired bytes of
\* that call's query, while model, core counts and total come unchanged from
\* their caches once these are filled.
C17_PlainFreshLoads ==
  /\ [](edition = "plain" =>
          /\ lastCall.fn = "getCPUInfo" =>
               /\ lastCall.ret.cpu.load_1 = Fin(lastCall.answers.load_1, 100)
               /\ Identity(lastCall.ret) =
                    Identity(history["getCPUInfo"].first)
          /\ memRet.used = FreshUsed(memIn))
  /\ [][(edition = "plain" /\ cached_total_mem # 0) =>
          memRet'.total = cached_total_mem]_vars

\* a second getCPUInfo call, after the load and the system's core counts
\* changed: the new load with the first call's core counts
C17_Witness ==
  /\ edition = "plain"
  /\ lastCall.fn = "getCPUInfo"
  /\ history["getCPUInfo"].calls = 2
  /\ lastCall.ret.cpu.load_1 # history["getCPUInfo"].first.cpu.load_1
  /\ lastCall.ret.cpu.load_1 = Fin(lastCall.answers.load_1, 100)
  /\ lastCall.answers.ncpu # lastCall.ret.cpu.cores_logical
  /\ memRet.total = MemSize /\ memRet.used > 0

\* two accesses of one location by two threads, one of them a write
Conflict(a, b) ==
  /\ a.who # b.who
  /\ a.where = b.where
  /\ a.write \/ b.write

\* future.get() orders everything the task did before main's later accesses
OrderedByJoin(a, b) ==
  \/ a.who = "main" /\ b.who \in a.joined
  \/ b.who = "main" /\ a.who \in b.joined

ResultOf(t) ==
  CASE t = "dns" -> loc.net_dns_ip
    [] t = "client_ip" -> loc.net_client_ip
    [] t = "login" -> loc.login

\* C18: in both editions no location written by an asynchronous task is read
\* or written by another task, or by main before main has joined that task
\* (the static caches included), and a task's result reaches main only
\* through its future.
C18_NoDataRace ==
  /\ \A a, b \in accesses : Conflict(a, b) => OrderedByJoin(a, b)
  /\ \A t \in Tasks :
       /\ task[t] = "taken" => ResultOf(t) = fut[t]
       /\ \A a \in accesses :
            (a.who = "main" /\ a.where = "future_" \o t) => t \in a.joined

\* the plain run has ended: the address task wrote its cache and its future,
\* main wrote its own caches while no task was joined yet, then took the result
C18_Witness ==
  /\ edition = "plain"
  /\ exitCode = "0"
  /\ Access("dns", "cached_dns", TRUE, {}) \in accesses
  /\ Access("dns", "future_dns", TRUE, {}) \in accesses
  /\ Access("main", "cached_user", TRUE, {}) \in accesses
  /\ Access("main", "future_dns", FALSE, {"dns"}) \in accesses
  /\ Access("login", "USER", FALSE, {}) \in accesses
  /\ Access("main", "USER", FALSE, {}) \in accesses
  /\ loc.net_dns_ip = fut["dns"]
  /\ Len(loc.net_dns_ip) > 0

\* the login record has a token at index 2 that looks like a dotted address
DottedToken(parts) ==
  /\ Len(parts) > 2
  /\ IsDigit(At(parts[3], 1))
  /\ Find(parts[3], ".", 1) # 0

\* four tokens from index from (counted from 0) joined by blanks
FourFrom(parts, from) ==
  parts[from + 1] \o " " \o parts[from + 2] \o " " \o
  parts[from + 3] \o " " \o parts[from + 4]

\* a record that names a login: not empty and not "never logged in"
NamesLogin(record) ==
  record # "" /\ Find(record, "never logged in", 1) = 0

\* C19: in both editions getLastLogin splits the login record on whitespace;
\* when token 2 starts with a digit and contains a '.', ip_present is true,
\* ip is that token and the time is tokens 3..6; otherwise ip_present is false
\* and the time is tokens 2..5; when the record has too few tokens for a
\* four-token time, the time is the raw record.
C19_LastLoginTokens ==
  (loginPc = "done" /\ NamesLogin(loginIn.last)) =>
    LET parts == Tokens(loginIn.last, "", <<>>)
        from == IF DottedToken(parts) THEN 3 ELSE 2
    IN  /\ loginRet.ip_present = DottedToken(parts)
        /\ DottedToken(parts) => loginRet.ip = parts[3]
        /\ loginRet.time = IF Len(parts) >= from + 4
                           THEN FourFrom(parts, from)
                           ELSE loginIn.last

\* the same statement for the plain edition alone
C19_PlainOnly == edition = "plain" => C19_LastLoginTokens

\* the texts of the list from which main computes current_len (in the themed
\* edition four of them carry a kaomoji in front of the text)
ListedTexts ==
  LET strings == all_strings(edition, loc) IN
  {strings[q].text : q \in 1..Len(strings)}

\* the values main printed through printData, the bar graphs left aside
PrintedValues ==
  {out[q].data : q \in {r \in 1..Len(out) : out[r].kind = "data"}}

\* C20: in both editions every value main prints through printData, each
\* entry of the DNS list and the login address included, is a member of the
\* string list from which the column width was computed.
C20_PrintedValuesListed ==
  pcMain \in {"return", "exited"} => PrintedValues \subseteq ListedTexts

\* the same statement with the DNS rows left out
C20_ButForDns ==
  pcMain \in {"return", "exited"} =>
    \A v \in PrintedValues :
      v \in ListedTexts \/ \E q \in 1..Len(loc.net_dns_ip) : loc.net_dns_ip[q] = v

\* the rows main wrote through printData
PrintedRows == {q \in 1..Len(out) : out[q].kind \in {"data", "graph"}}

\* C21: printData cuts a label longer than MAX_NAME_LEN = 13 to its first 10
\* characters and "..." and a non-graph value of width >= MAX_DATA_LEN = 32
\* to a prefix and "..."; for every call made by main, the value as printed
\* is never wider than current_len.
C21_ValueFitsColumn ==
  pcMain \in {"return", "exited"} =>
    \A q \in PrintedRows :
      /\ Len(ShownName(edition, out[q].name)) <= MAX_NAME_LEN
      /\ PrintedValueWidth(edition, out[q], current_len) <= current_len

\* the same statement for the rows that are neither bars nor, in the themed
\* edition, rows with a kaomoji or resolver rows
C21_UndecoratedTextFits ==
  pcMain \in {"return", "exited"} =>
    \A q \in PrintedRows :
      (/\ out[q].kind = "data"
       /\ out[q].kaomoji = NoKaomoji
       /\ \A d \in 1..Len(loc.net_dns_ip) : loc.net_dns_ip[d] # out[q].data)
      => PrintedValueWidth(edition, out[q], current_len) <= current_len

\* main has divided the loads by cpu.cores_logical
Divided == pcMain \in {"return", "exited", "crashed"}

\* C22: in both editions the CPU snapshot has logical cores >= physical cores
\* >= 1 when the core-count queries succeed and a defined fallback when they
\* fail, and the usage percent and the three load bars are computed by
\* dividing by the logical core count only when it is >= 1.
C22_CoresUsable ==
  /\ (pcMain # "collect" /\ pcMain # "launch_dns" /\ pcMain # "launch_client_ip"
      /\ pcMain # "launch_login" /\ env.ident # "fail")
     => (loc.cpu.cores_logical >= loc.cpu.cores_physical
         /\ loc.cpu.cores_physical >= 1)
  /\ Divided => loc.cpu.cores_logical >= 1

\* the first half alone: the snapshot when the queries succeed
C22_CoresWhenAnswered ==
  (Divided /\ env.ident # "fail")
     => (loc.cpu.cores_logical >= loc.cpu.cores_physical
         /\ loc.cpu.cores_physical >= 1)

\* One mark per written line: "^" for a header or title line, "|" for a
\* divider, the label without its blanks for a row. The unlabelled row the
\* plain edition writes under LAST LOGIN for the login address belongs to
\* LAST LOGIN and gets no mark.
Mark(line) ==
  CASE line.kind \in {"header", "centered"} -> "^"
    [] line.kind = "divider" -> "|"
    [] OTHER -> RemoveSpaces(line.name)
Marks ==
  LET labelled == SelectSeq(out, LAMBDA line :
                    ~(line.kind = "data" /\ line.name = ""))
  IN  [q \in 1..Len(labelled) |-> Mark(labelled[q])]

\* the marks after the title lines
RECURSIVE AfterTitles(_)
AfterTitles(marks) ==
  IF marks # <<>> /\ Head(marks) = "^" THEN AfterTitles(Tail(marks))
  ELSE marks

\* the groups of the report in the order of the claim, a divider between two
GroupsInOrder(resolvers) ==
  <<"|", "OS", "KERNEL",
    "|", "HOSTNAME", "MACHINEIP", "CLIENTIP">>
  \o [q \in 1..resolvers |-> "DNSIP" \o to_string(q)]
  \o <<"USER",
       "|", "PROCESSOR", "CORES", "HYPERVISOR", "CPUUSAGE",
            "LOAD1m", "LOAD5m", "LOAD15m",
       "|", "VOLUME", "DISKUSAGE",
       "|", "MEMORY", "USAGE",
       "|", "LASTLOGIN", "UPTIME",
       "|">>

\* the values of the DNS rows, in the order written
DnsRowValues ==
  LET rows == SelectSeq(out, LAMBDA line :
                line.kind = "data" /\ Len(line.name) >= 3
                /\ SubSeq(line.name, 1, 3) = "DNS")
  IN  [q \in 1..Len(rows) |-> rows[q].data]

Columns(it) ==
  CASE it \in {"a", "1", "tab"} -> 1
    [] it \in NarrowTwo -> 1
    [] it \in WideTwo \cup {"cut2"} -> 2
    [] it \in ThreeBytes \cup {"cut3"} -> 1
    [] it \in FourBytes \cup {"cut4"} -> 2

RECURSIVE SumColumns(_)
SumColumns(items) ==
  IF items = <<>> THEN 0 ELSE Columns(Head(items)) + SumColumns(Tail(items))

\* a string of well-formed sequences, the last of which may be cut off
WellFormedButLast(items) ==
  /\ \A q \in 1..Len(items) : items[q] \in CharItems \ CsiItems
  /\ \A q \in 1..(Len(items) - 1) : items[q] \notin CutItems

\* C24: getDisplayWidth counts a 2-byte sequence as 1 column when it is 0xC2
\* 0xA1..0xAF or 0xC3 0x80..0xBF and as 2 columns otherwise, a 3-byte
\* sequence as 1 column and a 4-byte sequence as 2; the width of a string of
\* well-formed sequences is the sum of these widths, and a sequence cut off
\* by the end of the string is counted once, the scan ending at the end.
C24_Utf8Columns ==
  WellFormedButLast(wItems) =>
    /\ wPc = "done" => wWidth = SumColumns(wItems)
    /\ wPc = "done" => wI >= Len(wStr)
    /\ (wPc = "loop" /\ wI < Len(wStr)) =>
          \E n \in 0..Len(wItems) :
            /\ wI = Len(Concat(SubSeq(wItems, 1, n)))
            /\ wWidth = SumColumns(SubSeq(wItems, 1, n))

\* a narrow and a wide 2-byte character, then a 4-byte sequence cut off
C24_Witness ==
  /\ wPc = "done"
  /\ wItems = <<"c2af", "c2b0", "cut4">>
  /\ wWidth = 5

\* C25: getDisplayWidth terminates on every byte string: each iteration of
\* its scanning loop strictly advances the index, also when ESC '[' is
\* followed by a byte that is neither a parameter byte nor a final byte, and
\* when the sequence is cut off by the end of the string.
C25_ScanAdvances ==
  (wPc = "loop" /\ wI < Len(wStr)) => WidthIter(wStr, wI, wWidth).i > wI

\* the same statement for the strings in which every ESC '[' is followed by
\* at most one parameter byte and then a final byte or the end of the string
C25_AdvancesOnClosedSequences ==
  (\A q \in 1..(Len(wItems) - 1) :
      wItems[q] = "csi" =>
        \/ wItems[q + 1] = "a"
        \/ wItems[q + 1] = "1" /\ (q + 2 <= Len(wItems) => wItems[q + 2] = "a"))
    => C25_ScanAdvances

\* the junction of every divider is in the column of the rows' separator
JunctionsAligned ==
  \A q \in 1..Len(out) :
    out[q].kind \in {"data", "graph"} =>
      DataSeparator(out[q]) = DividerJunction(current_len)

\* C26: in the plain edition every line of the report (header lines, title
\* lines, dividers, data rows including truncated values, DNS rows and
\* bar-graph rows) is current_len + MAX_NAME_LEN + BORDERS_AND_PADDING
\* columns wide, and the junction of every divider is in the column of the
\* label/value separator of the data rows.
C26_PlainLinesAligned ==
  (edition = "plain" /\ out # <<>>) =>
    /\ \A q \in 1..Len(out) :
         LineColumns(out[q], current_len)
           = current_len + MAX_NAME_LEN + BORDERS_AND_PADDING
    /\ JunctionsAligned

\* the same statement without the rows whose value is cut, the bars and the
\* DNS rows
C26_OtherLinesAligned ==
  (edition = "plain" /\ out # <<>>) =>
    /\ \A q \in 1..Len(out) :
         (/\ out[q].kind # "graph"
          /\ Len(out[q].data) < MAX_DATA_LEN
          /\ \A d \in 1..Len(loc.net_dns_ip) : loc.net_dns_ip[d] # out[q].data)
         => LineColumns(out[q], current_len)
              = current_len + MAX_NAME_LEN + BORDERS_AND_PADDING
    /\ JunctionsAligned

\* what each collector returns as a function of the query results e alone
\* (an uninitialized int read as 0, the static total not yet filled)
ValuesOf(ed, e) ==
  [os_name |-> getOSName(ed, e), os_kernel |-> getKernelVersion(ed, e),
   net_hostname |-> getHostname(ed, e),
   net_machine_ip |-> getMachineIP(ed, e),
   net_current_user |-> getCurrentUser(ed, e),
   cpu |-> getCPUInfo(ed, e, NoUnset),
   mem |-> IF ed = "plain" THEN getMemInfoPlain(0, RunMemQuery)
           ELSE getMemInfoThemed(RunMemQuery, 0),
   disk |-> getDiskInfo(ed, RunStatfs),
   net_dns_ip |-> getDNS(ed, e), net_client_ip |-> getClientIP(ed, e),
   login |-> getLastLogin(ed, e.last, e.uptime)]

\* the text main writes for these values
TextOf(ed, e) ==
  Report(ed, ValuesOf(ed, e), maxLength(ed, all_strings(ed, ValuesOf(ed, e))))

\* the process has ended, by return or by a signal
Ended == pcMain = "exited" \/ exitCode # "running"

\* changing the answer of the resolver query, of SSH_CLIENT, of the session
\* query, of the login record or of uptime changes no other collector's value
OthersUnchanged ==
  /\ \A d \in {"", "nameserver[0] : 9.9.9.9"} :
       LET v == ValuesOf(edition, [env EXCEPT !.dns = d]) IN
       [v EXCEPT !.net_dns_ip = <<>>]
         = [ValuesOf(edition, env) EXCEPT !.net_dns_ip = <<>>]
  /\ \A c \in {NULL, Value("5.6.7.8 1 22")}, w \in {"", "al ttys001 (5.6.7.8)"} :
       LET v == ValuesOf(edition, [env EXCEPT !.ssh_client = c, !.who = w]) IN
       [v EXCEPT !.net_client_ip = ""]
         = [ValuesOf(edition, env) EXCEPT !.net_client_ip = ""]
  /\ \A r \in {"", "al console Tue Feb 2 11:11"}, u \in {"", "up 1:01, 1 user"} :
       LET v == ValuesOf(edition, [env EXCEPT !.last = r, !.uptime = u]) IN
       [v EXCEPT !.login = LoginInfo("", "", FALSE, "")]
         = [ValuesOf(edition, env) EXCEPT !.login = LoginInfo("", "", FALSE, "")]

\* C27: in both editions, for fixed results of every external query and
\* environment variable, the text written to standard output is the same for
\* every interleaving and completion order of the three tasks and main, and
\* changing the result of one collector's query changes no other collector's
\* returned value.
C27_TextFunctionOfQueries ==
  /\ Ended => out = TextOf(edition, env)
  /\ pcMain = "launch_dns" => OthersUnchanged

\* the runs in which no undefined value is read: USER is set (plain edition)
\* and the core-count queries answer
Defined ==
  /\ ~LoginUserUndefined(edition, env.user)
  /\ env.ident # "fail"

\* the same statement for the runs without undefined behaviour
C27_DefinedRuns == Defined => C27_TextFunctionOfQueries

\* the pieces of an argument that are ASCII characters
AsciiCount(items) == Len(SelectSeq(items, LAMBDA it : it \in AsciiItems))

\* C10: for a string made only of ASCII characters and SGR sequences,
\* getDisplayWidth returns the number of ASCII characters outside the
\* sequences; every sequence contributes 0 wherever it occurs.
C10_WidthAsciiSgr ==
  (/\ wPc = "done"
   /\ \A q \in 1..Len(wItems) : wItems[q] \in AsciiItems \cup SgrItems) =>
    wWidth = AsciiCount(wItems)

\* two adjacent sequences at the start and one at the end were skipped
C10_Witness ==
  /\ wPc = "done"
  /\ Len(wItems) = MaxItems
  /\ wItems[1] \in SgrItems
  /\ wItems[2] = "a"
  /\ wItems[Len(wItems)] = "sgr_1_31m"
  /\ wWidth = AsciiCount(wItems)

\* C7: getMemInfo returns percent = used/total*100 when total > 0 and
\* percent = 0 when total = 0, also when the page-statistics query succeeded;
\* no division by a zero total is performed.
C7_MemPercent ==
  /\ memRet.total > 0 =>
       RatEq(memRet.percent, 100 * memRet.used, memRet.total)
  /\ memRet.total = 0 => RatEq(memRet.percent, 0, 1)

\* C8: getDiskInfo reports used = total - available, available being
\* f_bavail * f_bsize; in particular where f_bavail < f_bfree.
C8_DiskUsedFromAvail ==
  (diskIn.ok /\ diskIn.f_bavail < diskIn.f_bfree) =>
    diskRet.used = diskRet.total - diskIn.f_bavail * diskIn.f_bsize

====
